---- MODULE Spec2Model ----
(***************************************************************************)
(* A model of rpi_lcd.lcd.LCD (src/rpi_lcd/lcd.py).  animated_display: the  *)
(* setup of the per-line animation states, the scheduler loop with its     *)
(* single clock, the per-line state machine and the final safeguard loop.  *)
(* scroll_text, text with get_text_line, write with _write_byte and the    *)
(* backlight property have specifications of their own.                    *)
(* Time is counted in whole ticks; a text is a sequence of character codes.*)
(***************************************************************************)
EXTENDS Integers, Sequences, FiniteSets, TLC

\* ------------------------------------------------------------------ bounds
\* Display geometry of the model (LCD.__init__ parameters width and rows).
Width == 2
Rows == 2
\* Longest text of a config.
MaxLen == 4
\* Largest value of ScrollLine.loops.
MaxLoops == 2
\* The clock is followed up to this reading.
MaxTime == 6
\* How much later than asked a clock reading may come (render time, late wake-up).
MaxSlack == 1
\* The main loop is followed while the log is no longer than this.
MaxLog == 14
\* The number of calls made on one LCD object in the model of the bus.
MaxCalls == 2

\* ------------------------------------------------------- program constants
\* float("inf"): larger than every time the model reaches.
Inf == 1000
\* ord(" ")
Space == 32
\* The keys of LINES.
LINES == {1, 2, 3, 4}

Min(a, b) == IF a <= b THEN a ELSE b

\* -------------------------------------------------------------------- bus
ENABLE_BIT == 4
LCD_BACKLIGHT == 8
LCD_NOBACKLIGHT == 0
SET_DDRAM_ADDR == 128
LCD_DISPLAY_ON_NO_CURSOR_NO_BLINK == 12

\* a & b and a | b of Python on non-negative integers.
RECURSIVE BitAnd(_, _)
BitAnd(a, b) ==
    IF a = 0 \/ b = 0 THEN 0
    ELSE (a % 2) * (b % 2) + 2 * BitAnd(a \div 2, b \div 2)
RECURSIVE BitOr(_, _)
BitOr(a, b) ==
    IF a = 0 THEN b
    ELSE IF b = 0 THEN a
    ELSE (IF a % 2 = 1 \/ b % 2 = 1 THEN 1 ELSE 0) + 2 * BitOr(a \div 2, b \div 2)
\* a & ~b
BitClear(a, b) == a - BitAnd(a, b)

write_byte_no_pulse(byte) ==
    [bus |-> <<byte, byte, BitClear(byte, ENABLE_BIT)>>, sleeps |-> 2]

\* LCD._write_byte(byte): the three bus writes of one Enable pulse and the
\* number of calls of sleep(self.delay) it makes.
write_byte(byte) ==
    [bus |-> <<byte, BitOr(byte, ENABLE_BIT), BitClear(byte, ENABLE_BIT)>>, sleeps |-> 2]

write_low_nibble_unshifted(byte, mode, backlight) ==
    LET backlight_mode == IF backlight THEN LCD_BACKLIGHT ELSE LCD_NOBACKLIGHT
        high == write_byte(BitOr(BitOr(mode, BitAnd(byte, 240)), backlight_mode))
        low == write_byte(BitOr(BitOr(mode, BitAnd(byte, 15)), backlight_mode))
    IN  [bus |-> high.bus \o low.bus, sleeps |-> high.sleeps + low.sleeps]

\* LCD.write(byte, mode) with self.backlight = backlight: the high nibble, then
\* the low nibble, each through _write_byte.
write(byte, mode, backlight) ==
    LET backlight_mode == IF backlight THEN LCD_BACKLIGHT ELSE LCD_NOBACKLIGHT
        high_nibble == BitAnd(byte, 240)
        low_nibble == BitAnd(byte * 16, 240)
        high == write_byte(BitOr(BitOr(mode, high_nibble), backlight_mode))
        low == write_byte(BitOr(BitOr(mode, low_nibble), backlight_mode))
    IN  [bus |-> high.bus \o low.bus, sleeps |-> high.sleeps + low.sleeps]

\* The calls of sleep made by the bus writes of one line write of text() or
\* clear_line(): one write() for the address (two in clear_line) and one for
\* each character of the frame.
RECURSIVE sleeps_of(_)
sleeps_of(writes) ==
    IF writes = << >> THEN 0
    ELSE LET w == Head(writes)
             calls == Len(w.frame) + (IF w.kind = "clear" THEN 2 ELSE 1)
         IN  calls * write(0, 0, TRUE).sleeps + sleeps_of(Tail(writes))

\* ------------------------------------------------------------ str helpers
\* text[a : b] of Python (0-based, b exclusive, clipped to the text).
Slice(text, a, b) ==
    LET hi == Min(b, Len(text))
    IN  IF a >= hi THEN << >> ELSE SubSeq(text, a + 1, hi)

\* str.ljust(width): pad with spaces on the right, never truncate.
Ljust(text, w) ==
    IF Len(text) >= w THEN text
    ELSE text \o [j \in 1..(w - Len(text)) |-> Space]

\* str.rfind(" "): 0-based index of the last space, -1 when there is none.
RFindSpace(text) ==
    LET S == {j \in 1..Len(text) : text[j] = Space}
    IN  IF S = {} THEN -1 ELSE (CHOOSE j \in S : \A k \in S : k <= j) - 1

\* The ASCII characters that str.strip() removes.
Whitespace == {9, 10, 11, 12, 13, 28, 29, 30, 31, Space}

\* str.rjust(width) and str.center(width); center puts the odd space of an odd
\* margin on the left when the width is odd, else on the right.
Rjust(text, w) ==
    IF Len(text) >= w THEN text
    ELSE [j \in 1..(w - Len(text)) |-> Space] \o text
Center(text, w) ==
    IF Len(text) >= w THEN text
    ELSE LET marg == w - Len(text)
             left == (marg \div 2) + (IF marg % 2 = 1 /\ w % 2 = 1 THEN 1 ELSE 0)
         IN  [j \in 1..left |-> Space] \o text \o [j \in 1..(marg - left) |-> Space]

\* getattr(text, ALIGN_FUNC.get(align, "ljust"))(width)
Aligned(text, align, w) ==
    CASE align = "right"  -> Rjust(text, w)
      [] align = "center" -> Center(text, w)
      [] OTHER            -> Ljust(text, w)

\* str.strip()
Strip(text) ==
    LET S == {j \in 1..Len(text) : text[j] \notin Whitespace}
    IN  IF S = {} THEN << >>
        ELSE SubSeq(text, CHOOSE j \in S : \A k \in S : j <= k,
                          CHOOSE j \in S : \A k \in S : k <= j)

get_text_line_hard(text) ==
    IF Len(text) <= Width THEN <<text, << >> >>
    ELSE <<Slice(text, 0, Width), Strip(Slice(text, Width, Len(text)))>>

\* LCD.get_text_line: the part of the text for one line and the rest.
get_text_line(text) ==
    IF Len(text) <= Width THEN <<text, << >> >>
    ELSE LET possible_break_point == RFindSpace(Slice(text, 0, Width + 1))
             line_break == IF possible_break_point < 0 \/ possible_break_point > Width
                           THEN Width ELSE possible_break_point
         IN  <<Slice(text, 0, line_break), Strip(Slice(text, line_break, Len(text)))>>

\* LCD.text(text, line), align = "left": the line writes it makes, in order.  A
\* line number that is no key of LINES is written at the address of line 1.
RECURSIVE text_writes(_, _)
text_writes(text, line) ==
    LET parts == get_text_line(text)
        target == IF line \in LINES THEN line ELSE 1
        here == <<[ln |-> target, frame |-> Ljust(parts[1], Width)]>>
    IN  IF parts[2] # << >> /\ line < Rows
        THEN here \o text_writes(parts[2], line + 1)
        ELSE here

\* LCD.text(text, line, align): the same with the alignment of the call.
RECURSIVE text_aligned(_, _, _)
text_aligned(text, line, align) ==
    LET parts == get_text_line(text)
        target == IF line \in LINES THEN line ELSE 1
        here == <<[ln |-> target, frame |-> Aligned(parts[1], align, Width)]>>
    IN  IF parts[2] # << >> /\ line < Rows
        THEN here \o text_aligned(parts[2], line + 1, align)
        ELSE here

\* LCD.clear_line(line): one write of spaces, nothing on an invalid line.
clear_line_writes(line) ==
    IF line \notin LINES \/ line > Rows THEN << >>
    ELSE <<[ln |-> line, frame |-> [j \in 1..Width |-> Space]]>>

\* A write of the log with the place of the call that made it (kind) and the
\* text offset of the window it shows (off, -1 when it shows no window).
Tagged(writes, kind, off) ==
    [j \in 1..Len(writes) |->
        [ln |-> writes[j].ln, frame |-> writes[j].frame, kind |-> kind, off |-> off]]

\* ------------------------------------------------------------ scroll plan
\* list(range(a, b + 1)) and list(range(b, a - 1, -1)); empty when b < a.
Ascending_short(a, b) == IF b <= a THEN << >> ELSE [j \in 1..(b - a) |-> a + j - 1]
Ascending(a, b) == IF b < a THEN << >> ELSE [j \in 1..(b - a + 1) |-> a + j - 1]
Descending_empty(b, a) == << >>
Descending(b, a) == IF b < a THEN << >> ELSE [j \in 1..(b - a + 1) |-> b - j + 1]

valid_directions == {"left", "right", "both_lr", "both_rl"}

all_phases_repeat(direction, num_shifts) ==
    LET actual_direction == IF direction \in valid_directions THEN direction ELSE "left"
    IN  CASE actual_direction = "left"    -> <<Ascending(0, num_shifts)>>
          [] actual_direction = "right"   -> <<Descending(num_shifts, 0)>>
          [] actual_direction = "both_lr" -> <<Ascending(0, num_shifts),
                                               Descending(num_shifts, 0)>>
          [] actual_direction = "both_rl" -> <<Descending(num_shifts, 0),
                                               Ascending(0, num_shifts)>>

all_phases_none(direction, num_shifts) == << << >> >>

\* The phases of one loop: all_phases_indices of animated_display.
all_phases(direction, num_shifts) ==
    LET actual_direction == IF direction \in valid_directions THEN direction ELSE "left"
    IN  CASE actual_direction = "left"    -> <<Ascending(0, num_shifts)>>
          [] actual_direction = "right"   -> <<Descending(num_shifts, 0)>>
          [] actual_direction = "both_lr" -> <<Ascending(0, num_shifts),
                                               Descending(num_shifts - 1, 0)>>
          [] actual_direction = "both_rl" -> <<Descending(num_shifts, 0),
                                               Ascending(1, num_shifts)>>

\* The 0-based index of the first non-empty phase at or after `from`, Len(phases)
\* when there is none (the while loops at lines 544-548, 679-686 and 755-759).
RECURSIVE first_non_empty(_, _)
first_non_empty(phases, from) ==
    IF from < Len(phases) /\ phases[from + 1] = << >>
    THEN first_non_empty(phases, from + 1)
    ELSE from

\* The window of `width` characters at a text offset.
window_wide(text, off) == Slice(text, off, off + Width + 1)

window(text, off) == Slice(text, off, off + Width)

\* ------------------------------------------------------------------ setup
invalid_line_no_rows(line) == line \notin LINES

\* `config.line not in LINES or config.line > self.rows`
invalid_line(line) == line \notin LINES \/ line > Rows

line_end_time_relative(config, now) == IF config.timeout > 0 THEN config.timeout ELSE Inf

\* `end_time = now + config.timeout if config.timeout > 0 else float("inf")`
line_end_time(config, now) == IF config.timeout > 0 THEN now + config.timeout ELSE Inf

\* The state registered for a line that shows a static text.
finished_state(config, phases) ==
    [config |-> config, state |-> "finished", next_action_time |-> Inf,
     all_phases_indices |-> phases]

\* One iteration of the setup loop over `lines`.  `d` is the dict line_states:
\* d.map its values, d.keys its keys in insertion order.  The result carries the
\* new dict, the new overall_end_time and the line writes made.
setup_config(d, overall_end_time, config, now) ==
    IF invalid_line(config.line)
    THEN [d |-> d, overall_end_time |-> overall_end_time, writes |-> << >>]
    ELSE
    LET line == config.line
        cleared == Tagged(clear_line_writes(line), "clear", -1)
        keys == IF line \in DOMAIN d.map THEN d.keys ELSE Append(d.keys, line)
        put(state) == [map |-> [k \in DOMAIN d.map \cup {line} |->
                                   IF k = line THEN state ELSE d.map[k]],
                       keys |-> keys]
    IN  IF Len(config.text) <= Width
        THEN [d |-> put(finished_state(config, << >>)),
              overall_end_time |-> overall_end_time,
              writes |-> cleared \o Tagged(text_writes(config.text, line), "static", -1)]
        ELSE
        LET num_shifts == Len(config.text) - Width
            end_time == line_end_time(config, now)
            overall == Min(overall_end_time, end_time)
            phases == all_phases(config.direction, num_shifts)
            first_phase_index == first_non_empty(phases, 0)
        IN  IF first_phase_index >= Len(phases)
            THEN [d |-> put(finished_state(config, phases)),
                  overall_end_time |-> overall,
                  writes |-> cleared \o Tagged(text_writes(Slice(config.text, 0, Width), line),
                                               "no_phase_setup", -1)]
            ELSE
            LET initial_text_index == phases[first_phase_index + 1][1]
            IN  [d |-> put([config |-> config,
                            state |-> "awaiting_first_scroll",
                            next_action_time |-> now + config.start_delay,
                            current_loop |-> 0,
                            current_phase_idx |-> first_phase_index,
                            current_frame_in_phase_idx |-> 1,
                            all_phases_indices |-> phases,
                            end_time |-> end_time]),
                 overall_end_time |-> overall,
                 writes |-> cleared \o Tagged(text_writes(window(config.text, initial_text_index), line),
                                              "initial", initial_text_index)]

\* ------------------------------------------------------- line state machine
\* The static frame of a line: config.text[: self.width], written when the text
\* is longer than the width (`if len(config.text) > self.width`).
fallback_writes(config, line_num, kind) ==
    IF Len(config.text) > Width
    THEN Tagged(text_writes(Slice(config.text, 0, Width), line_num), kind, -1)
    ELSE << >>

finish_keep_time(state) == [state EXCEPT !.state = "finished"]

finish(state) == [state EXCEPT !.state = "finished", !.next_action_time = Inf]

\* State "scrolling": show the current frame and move on.
scrolling_step(state, line_num, now) ==
    LET config == state.config
        current_phase_indices == state.all_phases_indices[state.current_phase_idx + 1]
        frame_to_display_idx == state.current_frame_in_phase_idx
    IN  IF frame_to_display_idx < Len(current_phase_indices)
        THEN
        LET actual_text_start_index == current_phase_indices[frame_to_display_idx + 1]
            shown == Tagged(text_writes(window(config.text, actual_text_start_index), line_num),
                            "scroll", actual_text_start_index)
            next_frame == frame_to_display_idx + 1
        IN  IF next_frame < Len(current_phase_indices)
            THEN [state |-> [state EXCEPT !.current_frame_in_phase_idx = next_frame,
                                          !.next_action_time = now + config.scroll_delay],
                  writes |-> shown, remove |-> FALSE]
            ELSE
            LET next_phase == first_non_empty(state.all_phases_indices,
                                              state.current_phase_idx + 1)
            IN  IF next_phase < Len(state.all_phases_indices)
                THEN [state |-> [state EXCEPT !.current_phase_idx = next_phase,
                                              !.state = "awaiting_phase_delay",
                                              !.next_action_time = now + config.phase_delay,
                                              !.current_frame_in_phase_idx = 0],
                      writes |-> shown, remove |-> FALSE]
                ELSE [state |-> [state EXCEPT !.current_phase_idx = state.current_phase_idx + 1,
                                              !.current_frame_in_phase_idx = next_frame,
                                              !.state = "awaiting_end_delay",
                                              !.next_action_time = now + config.end_delay],
                      writes |-> shown, remove |-> FALSE]
        ELSE [state |-> finish(state),
              writes |-> fallback_writes(config, line_num, "oob"),
              remove |-> TRUE]

loops_finished_zero(config, current_loop, now, end_time) ==
    current_loop >= config.loops \/ now >= end_time

loops_finished_late(config, current_loop, now, end_time) ==
    (config.loops # 0 /\ current_loop > config.loops) \/ now >= end_time

\* `(config.loops != 0 and state["current_loop"] >= config.loops) or (now >= state["end_time"])`
loops_finished(config, current_loop, now, end_time) ==
    (config.loops # 0 /\ current_loop >= config.loops) \/ now >= end_time

\* State "awaiting_end_delay": count the loop, then finish or start the next loop.
end_delay_step(state, line_num, now) ==
    LET config == state.config
        current_loop == state.current_loop + 1
        counted == [state EXCEPT !.current_loop = current_loop]
    IN  IF loops_finished(config, current_loop, now, state.end_time)
        THEN [state |-> finish(counted),
              writes |-> fallback_writes(config, line_num, "loops_done"),
              remove |-> TRUE]
        ELSE
        LET temp_initial_phase_idx == first_non_empty(state.all_phases_indices, 0)
            restarted == [counted EXCEPT !.state = "awaiting_first_scroll",
                                         !.next_action_time = now + config.start_delay,
                                         !.current_phase_idx = 0,
                                         !.current_frame_in_phase_idx = 0]
        IN  IF temp_initial_phase_idx < Len(state.all_phases_indices)
            THEN
            LET first_frame_text_idx_new_loop ==
                    state.all_phases_indices[temp_initial_phase_idx + 1][1]
            IN  [state |-> [restarted EXCEPT !.current_phase_idx = temp_initial_phase_idx,
                                             !.current_frame_in_phase_idx = 1],
                 writes |-> Tagged(text_writes(window(config.text, first_frame_text_idx_new_loop),
                                               line_num),
                                   "new_loop", first_frame_text_idx_new_loop),
                 remove |-> FALSE]
            ELSE [state |-> finish(restarted),
                  writes |-> fallback_writes(config, line_num, "no_phase_loop"),
                  remove |-> TRUE]

line_step_counting(state, line_num, now) ==
    CASE state.state \in {"awaiting_first_scroll", "awaiting_phase_delay"} ->
            [state |-> [state EXCEPT !.state = "scrolling", !.next_action_time = now,
                                     !.current_loop = @ + 1],
             writes |-> << >>, remove |-> FALSE]
      [] state.state = "scrolling" -> scrolling_step(state, line_num, now)
      [] state.state = "awaiting_end_delay" -> end_delay_step(state, line_num, now)
      [] OTHER -> [state |-> state, writes |-> << >>, remove |-> FALSE]

line_step_through(state, line_num, now) ==
    CASE state.state \in {"awaiting_first_scroll", "awaiting_phase_delay"} ->
            scrolling_step([state EXCEPT !.state = "scrolling", !.next_action_time = now],
                           line_num, now)
      [] state.state = "scrolling" -> scrolling_step(state, line_num, now)
      [] state.state = "awaiting_end_delay" -> end_delay_step(state, line_num, now)
      [] OTHER -> [state |-> state, writes |-> << >>, remove |-> FALSE]

\* The state-specific transition of a due line (the if/elif chain on state["state"]).
line_step(state, line_num, now) ==
    CASE state.state = "awaiting_first_scroll" ->
            [state |-> [state EXCEPT !.state = "scrolling", !.next_action_time = now],
             writes |-> << >>, remove |-> FALSE]
      [] state.state = "scrolling" -> scrolling_step(state, line_num, now)
      [] state.state = "awaiting_phase_delay" ->
            [state |-> [state EXCEPT !.state = "scrolling", !.next_action_time = now],
             writes |-> << >>, remove |-> FALSE]
      [] state.state = "awaiting_end_delay" -> end_delay_step(state, line_num, now)
      [] OTHER -> [state |-> state, writes |-> << >>, remove |-> FALSE]

process_line_step_first(state, line_num, now) ==
    IF state.state = "finished" \/ now < state.next_action_time
    THEN [state |-> state, writes |-> << >>, remove |-> FALSE]
    ELSE IF now >= state.end_time /\ state.state = "scrolling"
    THEN [state |-> finish(state),
          writes |-> fallback_writes(state.config, line_num, "line_timeout"),
          remove |-> TRUE]
    ELSE line_step(state, line_num, now)

\* The body of `for line_num in list(active_line_numbers)` for one line: skip a
\* line that is finished or not due, finish a line whose own deadline has
\* passed, step any other.
process_line(state, line_num, now) ==
    IF state.state = "finished" \/ now < state.next_action_time
    THEN [state |-> state, writes |-> << >>, remove |-> FALSE]
    ELSE IF now >= state.end_time
    THEN [state |-> finish(state),
          writes |-> fallback_writes(state.config, line_num, "line_timeout"),
          remove |-> TRUE]
    ELSE line_step(state, line_num, now)

\* list.remove(x): the list without its first x.
RECURSIVE list_remove(_, _)
list_remove(list, x) ==
    IF list = << >> THEN << >>
    ELSE IF Head(list) = x THEN Tail(list)
    ELSE <<Head(list)>> \o list_remove(Tail(list), x)

RECURSIVE process_lines_backwards(_, _, _)
process_lines_backwards(copy, r, now) ==
    IF copy = << >> THEN r
    ELSE LET line_num == copy[Len(copy)]
             res == process_line(r.map[line_num], line_num, now)
         IN  process_lines_backwards(SubSeq(copy, 1, Len(copy) - 1),
                           [map |-> [r.map EXCEPT ![line_num] = res.state],
                            active |-> IF res.remove THEN list_remove(r.active, line_num)
                                       ELSE r.active,
                            writes |-> r.writes \o res.writes],
                           now)

RECURSIVE process_lines_live(_, _, _)
process_lines_live(copy, r, now) ==
    IF copy = << >> THEN r
    ELSE LET line_num == Head(copy)
             res == process_line(r.map[line_num], line_num, now)
             rest == IF res.remove /\ Len(copy) > 1 THEN Tail(Tail(copy)) ELSE Tail(copy)
         IN  process_lines_live(rest,
                           [map |-> [r.map EXCEPT ![line_num] = res.state],
                            active |-> IF res.remove THEN list_remove(r.active, line_num)
                                       ELSE r.active,
                            writes |-> r.writes \o res.writes],
                           now)

\* The for loop over a copy of active_line_numbers, in the copy's order.  `r`
\* carries line_states (map), active_line_numbers (active) and the writes so far.
RECURSIVE process_lines(_, _, _)
process_lines(copy, r, now) ==
    IF copy = << >> THEN r
    ELSE LET line_num == Head(copy)
             res == process_line(r.map[line_num], line_num, now)
         IN  process_lines(Tail(copy),
                           [map |-> [r.map EXCEPT ![line_num] = res.state],
                            active |-> IF res.remove THEN list_remove(r.active, line_num)
                                       ELSE r.active,
                            writes |-> r.writes \o res.writes],
                           now)

overall_timeout_keep(copy, r) == r

overall_timeout_first(copy, r) ==
    IF copy = << >> THEN r
    ELSE LET line_num == Head(copy)
             state == r.map[line_num]
         IN  [map |-> [r.map EXCEPT ![line_num] = finish(state)],
              active |-> list_remove(r.active, line_num),
              writes |-> r.writes \o
                  fallback_writes(state.config, line_num, "overall_timeout")]

\* `if now >= overall_end_time`: every active line gets its static frame and is
\* finished; the active list ends empty.
RECURSIVE overall_timeout(_, _)
overall_timeout(copy, r) ==
    IF copy = << >> THEN r
    ELSE LET line_num == Head(copy)
             state == r.map[line_num]
         IN  overall_timeout(Tail(copy),
                             [map |-> [r.map EXCEPT ![line_num] = finish(state)],
                              active |-> list_remove(r.active, line_num),
                              writes |-> r.writes \o
                                  fallback_writes(state.config, line_num, "overall_timeout")])

min_next_action_time_max(map, active) ==
    LET S == {map[active[j]].next_action_time : j \in 1..Len(active)}
    IN  CHOOSE t \in S : \A u \in S : u <= t

\* min(line_states[ln]["next_action_time"] for ln in active_line_numbers)
min_next_action_time(map, active) ==
    LET S == {map[active[j]].next_action_time : j \in 1..Len(active)}
    IN  CHOOSE t \in S : \A u \in S : t <= u

active_of_all(map, keys) == keys

\* The active list built after setup: the keys whose state is not finished.
active_of(map, keys) == SelectSeq(keys, LAMBDA ln : map[ln].state # "finished")

safeguard_writes_tail(map, line_config_final) ==
    LET line_num_final == line_config_final.line
        text == line_config_final.text
    IN  IF line_num_final \in DOMAIN map
           /\ map[line_num_final].state = "finished"
           /\ Len(text) > Width
        THEN Tagged(text_writes(Slice(text, Len(text) - Width, Len(text)), line_num_final),
                    "final", -1)
        ELSE << >>

\* One iteration of the safeguard loop after the main loop.
safeguard_writes(map, line_config_final) ==
    LET line_num_final == line_config_final.line
    IN  IF line_num_final \in DOMAIN map
           /\ map[line_num_final].state = "finished"
           /\ Len(line_config_final.text) > Width
        THEN Tagged(text_writes(Slice(line_config_final.text, 0, Width), line_num_final),
                    "final", -1)
        ELSE << >>

\* ------------------------------------------------------------------ state
VARIABLES
    lines,                \* the argument of animated_display: a list of ScrollLine
    pc,                   \* "setup", "loop", "safeguard" or "done"
    idx,                  \* position of the setup and safeguard loops in `lines`
    now,                  \* the local `now`: the last clock reading
    overall_end_time,
    line_states,          \* the values of the dict line_states
    line_keys,            \* its keys, in insertion order
    active_line_numbers,
    log,                  \* history: every line write made, in order
    stamps,               \* history: per line, its last two writes with `now`
    t0,                   \* history: the clock reading at the start of the call
    tick,                 \* history: the last iteration of the main loop
    solo,                 \* history: each line as animated alone, deadlines aside
    printed,              \* history: the messages printed, in order
    scroll                \* the arguments and locals of a call of scroll_text

vars == <<lines, pc, idx, now, overall_end_time, line_states, line_keys,
          active_line_numbers, log, stamps, t0, tick, solo, printed, scroll>>

\* The messages printed along with writes: the three error branches print and
\* then write the static frame.
ErrorKinds == {"no_phase_setup", "oob", "no_phase_loop"}
prints_of(writes) ==
    LET errors == SelectSeq(writes, LAMBDA w : w.kind \in ErrorKinds)
    IN  [j \in 1..Len(errors) |-> errors[j].kind]

\* The messages printed by one iteration of the setup loop: the warning for an
\* invalid line number (lines 497-499), the error for a plan with no phase.
setup_prints(config, writes) ==
    IF invalid_line(config.line) THEN <<"invalid_line">> ELSE prints_of(writes)

\* Each written line keeps its last two writes with the clock reading they
\* were made at.
RECURSIVE stamped(_, _, _)
stamped(st, writes, t) ==
    IF writes = << >> THEN st
    ELSE LET w == Head(writes)
             e == [kind |-> w.kind, off |-> w.off, t |-> t]
             old == st[w.ln]
         IN  stamped([st EXCEPT ![w.ln] = IF old = << >> THEN <<e>>
                                          ELSE <<old[Len(old)], e>>],
                     Tail(writes), t)

\* The line of a config as animated_display registers it when it is the only
\* config of the call: its state and the writes of its setup.
solo_setup(config, now_) ==
    LET r == setup_config([map |-> << >>, keys |-> << >>], Inf, config, now_)
    IN  [state |-> r.d.map[config.line], writes |-> r.writes]

\* A line animated alone sees the clock reading t: it is stepped when it is due.
\* Its deadline is left aside (a line alone has no other deadline than its own).
solo_step(s, line_num, t) ==
    IF s.state.state = "finished" \/ t < s.state.next_action_time THEN s
    ELSE LET r == line_step(s.state, line_num, t)
         IN  [state |-> r.state, writes |-> s.writes \o r.writes]

\* How late the due lines of an iteration are stepped: the largest distance from
\* a due line's next_action_time to the clock reading it is stepped at.
lag_of(map, active, t) ==
    LET L == {t - map[active[j]].next_action_time : j \in 1..Len(active)}
        D == {x \in L : x >= 0}
    IN  IF D = {} THEN 0 ELSE CHOOSE x \in D : \A y \in D : y <= x

\* ----------------------------------------------------------------- inputs
\* A text of L distinct characters starting at character code `base`.
Text(base, L) == [j \in 1..L |-> base + j - 1]

ScrollLine(text, line, scroll_delay, start_delay, phase_delay, end_delay, direction, loops, timeout) ==
    [text |-> text, line |-> line, scroll_delay |-> scroll_delay,
     start_delay |-> start_delay, phase_delay |-> phase_delay,
     end_delay |-> end_delay, direction |-> direction, loops |-> loops,
     timeout |-> timeout]

Directions == valid_directions \cup {"up"}

\* Configs of a text longer than the width on line 1, every field varied.
Scrollers ==
    {ScrollLine(Text(97, L), 1, sc, st, ph, en, dir, lp, tm) :
        L \in (Width + 1)..MaxLen, sc \in {0, 1}, st \in {0, 2}, ph \in {0, 1},
        en \in {0, 5}, dir \in Directions, lp \in 0..MaxLoops, tm \in {0, 2}}

\* Configs of a text no longer than the width, on a valid line.
Statics ==
    {ScrollLine(Text(65, L), ln, 1, 1, 1, 1, "left", 1, tm) :
        L \in {0, Width}, ln \in {1, Rows}, tm \in {0, 1}}

\* Configs on a line that is no row of the display.
Invalids ==
    {ScrollLine(Text(65, L), ln, 1, 1, 1, 1, "left", 1, tm) :
        L \in {Width, MaxLen}, ln \in {0, Rows + 1, 5}, tm \in {0, 1}}

\* Configs of a second scrolling text.
Seconds ==
    {ScrollLine(Text(65, Width + 1), ln, 1, 0, 1, 1, "right", lp, tm) :
        ln \in {1, Rows}, lp \in {0, 1}, tm \in {0, 1, 3}}

Companions == Statics \cup Invalids \cup Seconds

\* The scrolling config of a pair: direction, text and two delays are fixed.
Leaders ==
    {c \in Scrollers : c.direction = "both_lr" /\ Len(c.text) = Width + 1
                       /\ c.scroll_delay = 1 /\ c.phase_delay = 1}

InitWith(inputs, starts) ==
    /\ lines \in inputs
    /\ pc = "setup"
    /\ idx = 1
    /\ t0 \in starts
    /\ now = t0
    /\ overall_end_time = Inf
    /\ line_states = << >>
    /\ line_keys = << >>
    /\ active_line_numbers = << >>
    /\ log = << >>
    /\ stamps = [ln \in LINES |-> << >>]
    /\ tick = [reading |-> t0, slept |-> FALSE, slept_for |-> 0, lag |-> 0, wrote |-> 0,
              entered |-> {}, followed |-> {}, sleeps |-> 0]
    /\ solo = << >>
    /\ printed = << >>
    /\ scroll = << >>

\* ---------------------------------------------------------------- actions
\* One iteration of `for config in lines` (lines 495-584).
SetupStep ==
    /\ pc = "setup"
    /\ idx <= Len(lines)
    /\ LET config == lines[idx]
           r == setup_config([map |-> line_states, keys |-> line_keys],
                             overall_end_time, config, now)
       IN  /\ line_states' = r.d.map
           /\ line_keys' = r.d.keys
           /\ overall_end_time' = r.overall_end_time
           /\ log' = log \o r.writes
           /\ stamps' = stamped(stamps, r.writes, now)
           /\ solo' = [ln \in DOMAIN r.d.map |->
                          IF ln = config.line THEN solo_setup(config, now) ELSE solo[ln]]
           /\ printed' = printed \o setup_prints(config, r.writes)
    /\ idx' = idx + 1
    /\ UNCHANGED <<lines, pc, now, active_line_numbers, t0, tick, scroll>>

\* The active list is built and the main loop entered (lines 587-590).
BuildActive ==
    /\ pc = "setup"
    /\ idx > Len(lines)
    /\ active_line_numbers' = active_of(line_states, line_keys)
    /\ pc' = IF active_line_numbers' # << >> THEN "loop" ELSE "safeguard"
    /\ idx' = 1
    /\ UNCHANGED <<lines, now, overall_end_time, line_states, line_keys, log,
                   stamps, t0, tick, solo, printed, scroll>>

\* The lines that an iteration moves from "awaiting_first_scroll" or
\* "awaiting_phase_delay" to "scrolling" (lines 638-644 and 712-717).
entered_scrolling(before, after) ==
    {ln \in DOMAIN before :
        /\ before[ln].state \in {"awaiting_first_scroll", "awaiting_phase_delay"}
        /\ after[ln].state = "scrolling"}

\* One iteration of `while active_line_numbers` (lines 590-787): the clock is
\* read; at or after the overall deadline every active line is finished;
\* otherwise the scheduler sleeps until the earliest next action when none is
\* due, reads the clock again, and steps the due lines in order.
IterateAt(readings) ==
    /\ pc = "loop"
    /\ \E reading \in readings :
         LET timed_out == reading >= overall_end_time
             min_next == min_next_action_time(line_states, active_line_numbers)
             sleeping == ~timed_out /\ reading < min_next
         IN  \E late \in 0..(IF sleeping THEN MaxSlack ELSE 0) :
               LET woke == IF sleeping THEN min_next + late ELSE reading
                   start == [map |-> line_states, active |-> active_line_numbers,
                             writes |-> << >>]
               IN  \E r \in {IF timed_out THEN overall_timeout(active_line_numbers, start)
                            ELSE process_lines(active_line_numbers, start, woke)} :
                   /\ now' = woke
                   /\ line_states' = r.map
                   /\ active_line_numbers' = r.active
                   /\ log' = log \o r.writes
                   /\ stamps' = stamped(stamps, r.writes, woke)
                   /\ tick' = [reading |-> reading,
                               slept |-> tick.slept \/ sleeping,
                               slept_for |-> IF sleeping THEN min_next - reading ELSE 0,
                               lag |-> IF timed_out THEN 0
                                       ELSE lag_of(line_states, active_line_numbers, woke),
                               wrote |-> Len(r.writes),
                               entered |-> entered_scrolling(line_states, r.map),
                               followed |-> tick.entered,
                               sleeps |-> (IF sleeping THEN 1 ELSE 0) + sleeps_of(r.writes)]
                   /\ solo' = [ln \in DOMAIN solo |-> solo_step(solo[ln], ln, woke)]
                   /\ printed' = printed \o prints_of(r.writes)
                   /\ pc' = IF timed_out \/ r.active = << >> THEN "safeguard" ELSE "loop"
    /\ UNCHANGED <<lines, idx, overall_end_time, line_keys, t0, scroll>>

\* The iterations explored: the clock reading at the top of the loop is the
\* last reading or up to MaxSlack later, up to a horizon of time and writes.
Iterate ==
    /\ now <= MaxTime
    /\ Len(log) <= MaxLog
    /\ IterateAt(now..(now + MaxSlack))

\* The iterations of a run in which time passes: once MaxLog writes were made,
\* every reading at the top of the loop is later than the last reading.
IterateOn ==
    IterateAt(IF Len(log) <= MaxLog THEN now..(now + MaxSlack)
              ELSE (now + 1)..(now + MaxSlack))

\* One iteration of the safeguard loop (lines 790-798).
SafeguardStep ==
    /\ pc = "safeguard"
    /\ idx <= Len(lines)
    /\ LET writes == safeguard_writes(line_states, lines[idx])
       IN  /\ log' = log \o writes
           /\ stamps' = stamped(stamps, writes, now)
    /\ idx' = idx + 1
    /\ UNCHANGED <<lines, pc, now, overall_end_time, line_states, line_keys,
                   active_line_numbers, t0, tick, solo, printed, scroll>>

\* animated_display returns.
Return ==
    /\ pc = "safeguard"
    /\ idx > Len(lines)
    /\ pc' = "done"
    /\ UNCHANGED <<lines, idx, now, overall_end_time, line_states, line_keys,
                   active_line_numbers, log, stamps, t0, tick, solo, printed, scroll>>

Next == SetupStep \/ BuildActive \/ Iterate \/ SafeguardStep \/ Return

\* One config, every field varied.
InitOne == InitWith({<<c>> : c \in Scrollers}, {0, 1})
SpecOne == InitOne /\ [][Next]_vars

\* Two configs: a scroller and a config of another kind in either order, or two
\* configs that do not scroll.
Pairs == {<<a, b>> : a \in Leaders, b \in Companions}
             \cup {<<b, a>> : a \in Leaders, b \in Companions}
             \cup {<<a, b>> : a \in Statics \cup Invalids, b \in Statics \cup Invalids}
Init == InitWith(Pairs, {1})
Spec == Init /\ [][Next]_vars

\* Three scrolling configs with distinct texts, on any rows of the display: two
\* or three of them name the same line.
Triples ==
    {<<ScrollLine(Text(97, Width + 1), la, 1, st, 1, 1, "left", lp, 0),
       ScrollLine(Text(65, Width + 1), lb, 1, 0, 1, 1, "left", 1, 0),
       ScrollLine(Text(48, Width + 1), lc, 1, 0, 1, 1, "left", 1, 0)>> :
        la \in 1..Rows, lb \in 1..Rows, lc \in 1..Rows, st \in {0, 1}, lp \in {1, 2}}
InitThree == InitWith(Triples, {0})
SpecThree == InitThree /\ [][Next]_vars

\* Texts with spaces: a scrolling config alone, or followed by a short text on
\* another line or by a config on a line that is no row of the display.
Spaced ==
    LET scrollers == {ScrollLine(t, ln, 1, st, 1, 0, dir, lp, tm) :
                         t \in {<<97, Space, 98>>, <<Space, 97, Space, 98>>},
                         ln \in 1..Rows, st \in {0, 1}, dir \in valid_directions,
                         lp \in {1, 2}, tm \in {0, 2}}
        others == {ScrollLine(t, ln, 1, 1, 1, 1, "left", 1, 0) :
                      t \in {<<Space, 65>>, <<66, Space, 67>>}, ln \in {Rows, Rows + 1}}
    IN  {<<c>> : c \in scrollers} \cup {<<c, d>> : c \in scrollers, d \in others}
InitSpaced == InitWith(Spaced, {0})
SpecSpaced == InitSpaced /\ [][Next]_vars

\* ------------------------------------------------------------ scroll_text
\* The phases scroll_text builds at the top of every loop (lines 417-433), as
\* lists of offsets; `direction` is the local after the fallback of 381-385.
scroll_text_phases_rl_full(direction, num_shifts) ==
    CASE direction = "left"    -> <<Ascending(0, num_shifts)>>
      [] direction = "right"   -> <<Descending(num_shifts, 0)>>
      [] direction = "both_lr" -> <<Ascending(0, num_shifts), Descending(num_shifts - 1, 0)>>
      [] direction = "both_rl" -> <<Descending(num_shifts, 0), Ascending(0, num_shifts)>>
      [] OTHER                 -> << >>

scroll_text_phases(direction, num_shifts) ==
    CASE direction = "left"    -> <<Ascending(0, num_shifts)>>
      [] direction = "right"   -> <<Descending(num_shifts, 0)>>
      [] direction = "both_lr" -> <<Ascending(0, num_shifts), Descending(num_shifts - 1, 0)>>
      [] direction = "both_rl" -> <<Descending(num_shifts, 0), Ascending(1, num_shifts)>>
      [] OTHER                 -> << >>

\* `if direction not in valid_directions: ... direction = "left"`
scroll_text_direction_kept(direction) == direction
scroll_text_direction(direction) ==
    IF direction \in valid_directions THEN direction ELSE "left"

\* `if time.monotonic() <= end_time` before the final frame (line 482).
final_frame_written_always(reading, end_time) == TRUE
final_frame_written(reading, end_time) == reading <= end_time

\* The arguments of a call of scroll_text with its locals before the call.
ScrollCall(text, line, scroll_delay, start_delay, phase_delay, end_delay, direction, loops, timeout) ==
    [text |-> text, line |-> line, scroll_delay |-> scroll_delay,
     start_delay |-> start_delay, phase_delay |-> phase_delay,
     end_delay |-> end_delay, direction |-> direction, loops |-> loops,
     timeout |-> timeout, given_direction |-> direction, end_time |-> Inf,
     current_loops |-> 0, phases |-> << >>, phase_no |-> 1, k |-> 1,
     first_phase_incdice |-> TRUE]

ScrollCalls ==
    {ScrollCall(Text(97, L), ln, sc, st, ph, en, dir, lp, tm) :
        L \in {Width} \cup ((Width + 1)..MaxLen), ln \in {1, Rows + 1},
        sc \in {0, 1}, st \in {0, 1}, ph \in {0, 1}, en \in {0, 1},
        dir \in Directions, lp \in 0..MaxLoops, tm \in {0, 2}}

InitScrollWith(calls, starts) ==
    /\ scroll \in calls
    /\ pc = "st_entry"
    /\ t0 \in starts
    /\ now = t0
    /\ lines = << >>
    /\ idx = 1
    /\ overall_end_time = Inf
    /\ line_states = << >>
    /\ line_keys = << >>
    /\ active_line_numbers = << >>
    /\ log = << >>
    /\ stamps = [ln \in LINES |-> << >>]
    /\ tick = [reading |-> t0, slept |-> FALSE, slept_for |-> 0, lag |-> 0, wrote |-> 0,
              entered |-> {}, followed |-> {}, sleeps |-> 0]
    /\ solo = << >>
    /\ printed = << >>

InitScroll == InitScrollWith(ScrollCalls, {0, 1})

\* What scroll_text leaves alone: the variables of animated_display.
ScrollFrame == UNCHANGED <<lines, idx, overall_end_time, line_states, line_keys, active_line_numbers, t0, tick, solo>>

\* Readings of time.monotonic(): no earlier than the last one.
Readings == now..(now + MaxSlack)

\* Lines 380-409: the direction fallback, the validation of the line, the
\* static text, the deadline and the clearing of the line.
ScrollEntry ==
    /\ pc = "st_entry"
    /\ LET direction == scroll_text_direction(scroll.direction)
           warned == IF direction # scroll.direction THEN <<"invalid_direction">> ELSE << >>
       IN  IF invalid_line(scroll.line)
           THEN /\ printed' = printed \o warned \o <<"invalid_line">>
                /\ scroll' = [scroll EXCEPT !.direction = direction]
                /\ pc' = "st_done"
                /\ UNCHANGED <<now, log, stamps>>
           ELSE IF Len(scroll.text) <= Width
           THEN LET writes == Tagged(text_writes(scroll.text, scroll.line), "static", -1)
                IN  /\ printed' = printed \o warned
                    /\ scroll' = [scroll EXCEPT !.direction = direction]
                    /\ log' = log \o writes
                    /\ stamps' = stamped(stamps, writes, now)
                    /\ pc' = "st_done"
                    /\ UNCHANGED now
           ELSE \E reading \in (IF scroll.timeout > 0 THEN Readings ELSE {now}) :
                LET writes == Tagged(clear_line_writes(scroll.line), "clear", -1)
                IN  /\ printed' = printed \o warned
                    /\ scroll' = [scroll EXCEPT !.direction = direction,
                                                !.end_time = IF scroll.timeout > 0
                                                             THEN reading + scroll.timeout
                                                             ELSE Inf,
                                                !.current_loops = 0]
                    /\ now' = reading
                    /\ log' = log \o writes
                    /\ stamps' = stamped(stamps, writes, reading)
                    /\ pc' = "st_while"
    /\ ScrollFrame

\* Lines 411-435: the test of the while loop, the timeout test and the phases
\* of this loop.
ScrollWhile ==
    /\ pc = "st_while"
    /\ now <= MaxTime
    /\ Len(log) <= MaxLog
    /\ IF ~(scroll.loops = 0 \/ scroll.current_loops < scroll.loops)
       THEN pc' = "st_reset" /\ UNCHANGED <<now, scroll>>
       ELSE \E reading \in Readings :
              /\ now' = reading
              /\ IF reading > scroll.end_time
                 THEN pc' = "st_reset" /\ UNCHANGED scroll
                 ELSE /\ scroll' = [scroll EXCEPT
                            !.phases = scroll_text_phases(scroll.direction,
                                                          Len(scroll.text) - Width),
                            !.first_phase_incdice = TRUE,
                            !.phase_no = 1]
                      /\ pc' = "st_phase"
    /\ UNCHANGED <<log, stamps, printed>>
    /\ ScrollFrame

\* Lines 438-440: the head of the loop over the phases; after the last phase,
\* or at a timeout, the end delay follows.
ScrollPhase ==
    /\ pc = "st_phase"
    /\ IF scroll.phase_no > Len(scroll.phases)
       THEN pc' = "st_end_delay" /\ UNCHANGED <<now, scroll>>
       ELSE \E reading \in Readings :
              /\ now' = reading
              /\ IF reading > scroll.end_time
                 THEN pc' = "st_end_delay" /\ UNCHANGED scroll
                 ELSE pc' = "st_frame" /\ scroll' = [scroll EXCEPT !.k = 1]
    /\ UNCHANGED <<log, stamps, printed>>
    /\ ScrollFrame

\* Lines 442-465: one iteration of the loop over the offsets of a phase: the
\* frame is written, then the start delay (first frame of the loop) and the
\* scroll delay are slept; after the last offset, or at a timeout, the phase
\* delay is slept when another phase follows.
ScrollShift ==
    /\ pc = "st_frame"
    /\ LET phase_indices == scroll.phases[scroll.phase_no]
           phase_delay == IF Len(scroll.phases) > 1 /\ scroll.phase_no < Len(scroll.phases)
                          THEN scroll.phase_delay ELSE 0
           next_phase == [scroll EXCEPT !.phase_no = scroll.phase_no + 1]
       IN  IF scroll.k > Len(phase_indices)
           THEN /\ now' = now + phase_delay
                /\ scroll' = next_phase
                /\ pc' = "st_phase"
                /\ UNCHANGED <<log, stamps>>
           ELSE \E reading \in Readings :
                  IF reading > scroll.end_time
                  THEN /\ now' = reading + phase_delay
                       /\ scroll' = next_phase
                       /\ pc' = "st_phase"
                       /\ UNCHANGED <<log, stamps>>
                  ELSE LET i == phase_indices[scroll.k]
                           writes == Tagged(text_writes(window(scroll.text, i), scroll.line),
                                            "scroll", i)
                       IN  /\ log' = log \o writes
                           /\ stamps' = stamped(stamps, writes, reading)
                           /\ now' = reading + scroll.scroll_delay
                                       + (IF scroll.first_phase_incdice
                                          THEN scroll.start_delay ELSE 0)
                           /\ scroll' = [scroll EXCEPT !.k = scroll.k + 1,
                                                       !.first_phase_incdice = FALSE]
                           /\ pc' = "st_frame"
    /\ UNCHANGED printed
    /\ ScrollFrame

\* Lines 467-475: the end delay, the timeout test and the count of the loop.
ScrollEndDelay ==
    /\ pc = "st_end_delay"
    /\ \E reading \in (now + scroll.end_delay)..(now + scroll.end_delay + MaxSlack) :
         /\ now' = reading
         /\ IF reading > scroll.end_time
            THEN pc' = "st_reset" /\ UNCHANGED scroll
            ELSE LET current_loops == scroll.current_loops + 1
                 IN  /\ scroll' = [scroll EXCEPT !.current_loops = current_loops]
                     /\ pc' = IF scroll.loops # 0 /\ current_loops >= scroll.loops
                              THEN "st_reset" ELSE "st_while"
    /\ UNCHANGED <<log, stamps, printed>>
    /\ ScrollFrame

\* Lines 477-483: the final frame, written unless the deadline has passed.
ScrollReset ==
    /\ pc = "st_reset"
    /\ \E reading \in Readings :
         LET writes == IF final_frame_written(reading, scroll.end_time)
                       THEN Tagged(text_writes(Slice(scroll.text, 0, Width), scroll.line),
                                   "final", -1)
                       ELSE << >>
         IN  /\ now' = reading
             /\ log' = log \o writes
             /\ stamps' = stamped(stamps, writes, reading)
    /\ pc' = "st_done"
    /\ UNCHANGED <<scroll, printed>>
    /\ ScrollFrame

NextScroll == ScrollEntry \/ ScrollWhile \/ ScrollPhase \/ ScrollShift \/ ScrollEndDelay \/ ScrollReset
SpecScroll == InitScroll /\ [][NextScroll]_vars

\* One scrolling text on the last row of the display, given either to animated_display
\* as its only ScrollLine or to scroll_text as its arguments.
Equivalents ==
    {ScrollLine(Text(97, L), ln, sc, st, ph, en, dir, lp, tm) :
        L \in (Width + 1)..MaxLen, ln \in {Rows}, sc \in {0, 1}, st \in {0, 1},
        ph \in {0, 1}, en \in {1}, dir \in Directions, lp \in 0..MaxLoops,
        tm \in {0, 2}}
InitBoth ==
    \/ InitWith({<<c>> : c \in Equivalents}, {0})
    \/ InitScrollWith({ScrollCall(c.text, c.line, c.scroll_delay, c.start_delay,
                                  c.phase_delay, c.end_delay, c.direction, c.loops,
                                  c.timeout) : c \in Equivalents}, {0})
NextBoth ==
    \/ SetupStep \/ BuildActive \/ Iterate \/ SafeguardStep \/ Return
    \/ ScrollEntry \/ ScrollWhile \/ ScrollPhase \/ ScrollShift \/ ScrollEndDelay \/ ScrollReset
SpecBoth == InitBoth /\ [][NextBoth]_vars

\* The calls that the claim of termination is about: every scrolling config on
\* a valid line has loops > 0, or one of them has a timeout.
Ends(configs) ==
    LET scrolls(c) == ~invalid_line(c.line) /\ Len(c.text) > Width
    IN  \/ \A i \in 1..Len(configs) : scrolls(configs[i]) => configs[i].loops > 0
        \/ \E i \in 1..Len(configs) : scrolls(configs[i]) /\ configs[i].timeout > 0

\* A scrolling config alone, with no delay at all or with a scroll and a phase
\* delay, and such a config next to a second scrolling line, a static text or
\* a config on an invalid line.
LiveScrollers ==
    {c \in Scrollers : /\ Len(c.text) = Width + 1 /\ c.direction \in {"left", "both_lr"}
                       /\ c.start_delay = 0 /\ c.end_delay = 0
                       /\ c.scroll_delay = c.phase_delay}
LiveCompanions ==
    {c \in Seconds : c.line = Rows /\ c.timeout \in {0, 1}}
        \cup {c \in Statics \cup Invalids : /\ Len(c.text) = Width /\ c.timeout = 1
                                           /\ c.line \in {Rows, Rows + 1}}
LiveCalls ==
    {<<c>> : c \in LiveScrollers}
        \cup {<<a, b>> : a \in {c \in LiveScrollers : /\ c.direction = "both_lr" /\ c.scroll_delay = 1
                                                    /\ c.loops <= 1},
                         b \in LiveCompanions}

InitLive == InitWith({configs \in LiveCalls : Ends(configs)}, {1})
NextLive == SetupStep \/ BuildActive \/ IterateOn \/ SafeguardStep \/ Return
SpecLive == InitLive /\ [][NextLive]_vars /\ WF_vars(NextLive)

\* ------------------------------------------------------------------- text
\* The characters of the texts given to text(): a letter, the space, a tab.
Alphabet == {97, Space, 9}
Texts(n) == UNION {[1..L -> Alphabet] : L \in 0..n}

\* Calls of text(text, line, align): every text of up to MaxLen + 1 characters,
\* on every row, on line rows + 1 and on a line that is no key of LINES.
TextCalls ==
    {[text |-> t, line |-> ln, align |-> al] :
        t \in Texts(MaxLen + 1), ln \in (1..Rows) \cup {Rows + 1, 5},
        al \in {"left", "right", "center", "justify"}}

InitText ==
    /\ scroll \in TextCalls
    /\ pc = "tx_call"
    /\ t0 = 0
    /\ now = 0
    /\ lines = << >>
    /\ idx = 1
    /\ overall_end_time = Inf
    /\ line_states = << >>
    /\ line_keys = << >>
    /\ active_line_numbers = << >>
    /\ log = << >>
    /\ stamps = [ln \in LINES |-> << >>]
    /\ tick = [reading |-> 0, slept |-> FALSE, slept_for |-> 0, lag |-> 0, wrote |-> 0,
              entered |-> {}, followed |-> {}, sleeps |-> 0]
    /\ solo = << >>
    /\ printed = << >>

\* LCD.text (lines 229-264) with its recursive calls: the line writes it
\* makes and the calls of sleep of their bus writes.
TextCall ==
    /\ pc = "tx_call"
    /\ LET writes == Tagged(text_aligned(scroll.text, scroll.line, scroll.align), "text", -1)
       IN  /\ log' = writes
           /\ tick' = [tick EXCEPT !.wrote = Len(writes), !.sleeps = sleeps_of(writes)]
    /\ pc' = "tx_done"
    /\ UNCHANGED <<lines, idx, now, overall_end_time, line_states, line_keys,
                   active_line_numbers, stamps, t0, solo, printed, scroll>>

NextText == TextCall
SpecText == InitText /\ [][NextText]_vars

\* -------------------------------------------------------------- bus calls
\* The bytes given to write(): every 8-bit value and the code of a character
\* above 255 in the first call on the object, two values in the later calls.
Bytes == (0..255) \cup {8364}
LaterBytes == {LCD_DISPLAY_ON_NO_CURSOR_NO_BLINK, 165}

\* An LCD object with its _backlight, before any call; `log` is the sequence of
\* the bytes given to bus.write_byte.
InitBus ==
    /\ scroll \in {[backlight |-> b, calls |-> 0, op |-> "none", byte |-> 0, mode |-> 0,
                     at_call |-> b] : b \in BOOLEAN}
    /\ pc = "bus"
    /\ t0 = 0
    /\ now = 0
    /\ lines = << >>
    /\ idx = 1
    /\ overall_end_time = Inf
    /\ line_states = << >>
    /\ line_keys = << >>
    /\ active_line_numbers = << >>
    /\ log = << >>
    /\ stamps = [ln \in LINES |-> << >>]
    /\ tick = [reading |-> 0, slept |-> FALSE, slept_for |-> 0, lag |-> 0, wrote |-> 0,
              entered |-> {}, followed |-> {}, sleeps |-> 0]
    /\ solo = << >>
    /\ printed = << >>

BusFrame == UNCHANGED <<lines, idx, now, overall_end_time, line_states, line_keys, active_line_numbers, stamps, t0, solo, printed, pc>>

\* A call of LCD.write(byte, mode) (lines 203-227).
BusWrite ==
    /\ pc = "bus"
    /\ scroll.calls < MaxCalls
    /\ \E byte \in (IF scroll.calls = 0 THEN Bytes ELSE LaterBytes) : \E mode \in {0, 1} :
          LET r == write(byte, mode, scroll.backlight)
          IN  /\ log' = log \o r.bus
              /\ tick' = [tick EXCEPT !.wrote = Len(r.bus), !.sleeps = r.sleeps]
              /\ scroll' = [scroll EXCEPT !.calls = @ + 1, !.op = "write", !.byte = byte,
                                          !.mode = mode, !.at_call = scroll.backlight]
    /\ BusFrame

\* An assignment to the property LCD.backlight (lines 178-181): _backlight is
\* set, then the display control command is written.
BusBacklight ==
    /\ pc = "bus"
    /\ scroll.calls < MaxCalls
    /\ \E value \in BOOLEAN :
          LET r == write(LCD_DISPLAY_ON_NO_CURSOR_NO_BLINK, 0, value)
          IN  /\ log' = log \o r.bus
              /\ tick' = [tick EXCEPT !.wrote = Len(r.bus), !.sleeps = r.sleeps]
              /\ scroll' = [scroll EXCEPT !.calls = @ + 1, !.op = "backlight",
                                          !.byte = LCD_DISPLAY_ON_NO_CURSOR_NO_BLINK,
                                          !.mode = 0, !.backlight = value,
                                          !.at_call = scroll.backlight]
    /\ BusFrame

NextBus == BusWrite \/ BusBacklight
SpecBus == InitBus /\ [][NextBus]_vars

\* ------------------------------------------------------- history helpers
SetupKinds == {"clear", "static", "initial", "no_phase_setup"}
AnimationKinds == {"initial", "new_loop", "scroll"}
TimeoutKinds == {"line_timeout", "overall_timeout"}

\* The writes made on a line, and those that show a window of the animation.
LineLog(ln) == SelectSeq(log, LAMBDA e : e.ln = ln)
Animation(ln) == SelectSeq(log, LAMBDA e : e.ln = ln /\ e.kind \in AnimationKinds)
KindsOn(ln) == {log[j].kind : j \in {k \in 1..Len(log) : log[k].ln = ln}}

\* The lines registered with a text longer than the width.
Scrolling == {ln \in DOMAIN line_states : Len(line_states[ln].config.text) > Width}
Shifts(ln) == Len(line_states[ln].config.text) - Width

\* The last write of a line and the one before it, with their clock readings.
HasTwo(ln) == Len(stamps[ln]) = 2
Prev(ln) == stamps[ln][1]
Last(ln) == stamps[ln][Len(stamps[ln])]

\* ----------------------------------------------------------------- claims
\* C1: a line with a text of length L > W and direction "left" shows, in every
\* loop, the offsets 0,1,...,L-W in that order, each once (the j-th window it
\* shows is offset (j-1) mod (L-W+1), and a loop is counted or a new loop begun
\* only after a whole number of such rounds); offset 1 comes no earlier than
\* start_delay after offset 0, every later frame no earlier than scroll_delay
\* after the one before, and what follows the last frame (the next loop's
\* offset 0 or the final static frame) no earlier than end_delay after it.
C1_LeftLoop ==
    \A ln \in Scrolling :
        LET c == line_states[ln].config
            n == Shifts(ln) + 1
            a == Animation(ln)
        IN  c.direction = "left" =>
              /\ \A j \in 1..Len(a) :
                    /\ a[j].off = (j - 1) % n
                    /\ a[j].frame = SubSeq(c.text, a[j].off + 1, a[j].off + Width)
                    /\ a[j].kind = IF j = 1 THEN "initial"
                                   ELSE IF a[j].off = 0 THEN "new_loop" ELSE "scroll"
              /\ (line_states[ln].state = "awaiting_end_delay"
                    \/ "loops_done" \in KindsOn(ln)) => Len(a) % n = 0
              /\ HasTwo(ln) =>
                    /\ (Last(ln).kind = "scroll" /\ Last(ln).off = 1)
                          => (/\ Prev(ln).kind \in {"initial", "new_loop"}
                              /\ Last(ln).t - Prev(ln).t >= c.start_delay)
                    /\ (Last(ln).kind = "scroll" /\ Last(ln).off > 1)
                          => (/\ Prev(ln).kind = "scroll"
                              /\ Last(ln).t - Prev(ln).t >= c.scroll_delay)
                    /\ Last(ln).kind \in {"new_loop", "loops_done"}
                          => (/\ Prev(ln).kind = "scroll"
                              /\ Prev(ln).off = n - 1
                              /\ Last(ln).t - Prev(ln).t >= c.end_delay)

\* C1 witness: a "left" line with positive delays showed offsets 0, 1, 2 and,
\* after its end_delay, began its second loop with offset 0.
C1_Witness ==
    \E ln \in Scrolling :
        LET c == line_states[ln].config
        IN  /\ c.direction = "left" /\ c.start_delay > 0 /\ c.end_delay > 0
            /\ c.scroll_delay > 0 /\ Shifts(ln) >= 2
            /\ line_states[ln].current_loop = 1
            /\ Len(Animation(ln)) = Shifts(ln) + 2

\* The documented offsets of one loop, phase after phase (s = L - W).
DocumentedPlan(direction, s) ==
    CASE direction = "right"   -> [j \in 1..(s + 1) |-> s + 1 - j]
      [] direction = "both_lr" -> [j \in 1..(2 * s + 1) |->
                                     IF j <= s + 1 THEN j - 1 ELSE 2 * s + 1 - j]
      [] direction = "both_rl" -> [j \in 1..(2 * s + 1) |->
                                     IF j <= s + 1 THEN s + 1 - j ELSE j - s - 1]
      [] OTHER                 -> [j \in 1..(s + 1) |-> j - 1]

\* C2: a line with direction "both_lr" shows in one loop the offsets
\* 0,1,...,shifts and then shifts-1,...,0, so offset `shifts` once per loop and
\* never twice in a row; the first frame of the second phase comes no earlier
\* than phase_delay after the last frame of the first phase, and the frames
\* inside a phase no earlier than scroll_delay after one another.
C2_BothLrLoop ==
    \A ln \in Scrolling :
        LET c == line_states[ln].config
            s == Shifts(ln)
            p == 2 * s + 1
            a == Animation(ln)
        IN  c.direction = "both_lr" =>
              /\ \A j \in 1..Len(a) :
                    LET k == (j - 1) % p
                    IN  /\ a[j].off = IF k <= s THEN k ELSE 2 * s - k
                        /\ a[j].frame = SubSeq(c.text, a[j].off + 1, a[j].off + Width)
                        /\ (j > 1 /\ a[j].off = s) => a[j - 1].off = s - 1
                        /\ (j > 1 /\ a[j - 1].off = s) => a[j].off = s - 1
              /\ (HasTwo(ln) /\ Last(ln).kind = "scroll" /\ Prev(ln).kind = "scroll") =>
                    IF Prev(ln).off = s
                    THEN Last(ln).off = s - 1 /\ Last(ln).t - Prev(ln).t >= c.phase_delay
                    ELSE Last(ln).t - Prev(ln).t >= c.scroll_delay

\* C2 witness: a "both_lr" line with a positive phase_delay has just shown the
\* first frame of its second phase, offset shifts-1 after offset shifts.
C2_Witness ==
    \E ln \in Scrolling :
        LET c == line_states[ln].config
        IN  /\ c.direction = "both_lr" /\ c.phase_delay > 0 /\ Shifts(ln) >= 2
            /\ HasTwo(ln) /\ Prev(ln).kind = "scroll" /\ Last(ln).kind = "scroll"
            /\ Prev(ln).off = Shifts(ln) /\ Last(ln).off = Shifts(ln) - 1
            /\ Last(ln).t - Prev(ln).t >= c.phase_delay

\* The writes of a line after its clear, as kinds.
KindSeq(ln) ==
    LET l == SelectSeq(LineLog(ln), LAMBDA e : e.kind # "clear")
    IN  [j \in 1..Len(l) |-> l[j].kind]

\* C3: a line with loops = N > 0 shows N times the offsets of its plan, in plan
\* order, and never more; when it finishes without a deadline it has shown
\* exactly N loops, its next write is the static frame of the first `width`
\* characters, made no earlier than end_delay after the last frame, and its
\* loop counter is N.
C3_ExactlyNLoops ==
    \A ln \in Scrolling :
        LET st == line_states[ln]
            c == st.config
            plan == DocumentedPlan(c.direction, Shifts(ln))
            p == Len(plan)
            a == Animation(ln)
            l == LineLog(ln)
        IN  c.loops > 0 =>
              /\ Len(a) <= c.loops * p
              /\ \A j \in 1..Len(a) : a[j].off = plan[((j - 1) % p) + 1]
              /\ st.state # "finished" => st.current_loop < c.loops
              /\ (st.state = "finished" /\ KindsOn(ln) \cap TimeoutKinds = {}) =>
                    /\ Len(a) = c.loops * p
                    /\ st.current_loop = c.loops
                    /\ KindSeq(ln)[Len(a) + 1] = "loops_done"
                    /\ \A j \in 1..Len(l) : l[j].kind \in {"loops_done", "final"}
                          => l[j].frame = SubSeq(c.text, 1, Width)
                    /\ \A j \in (Len(a) + 2)..Len(KindSeq(ln)) : KindSeq(ln)[j] = "final"
              /\ (HasTwo(ln) /\ Last(ln).kind = "loops_done") =>
                    /\ Prev(ln).kind = "scroll"
                    /\ Last(ln).t - Prev(ln).t >= c.end_delay

\* C3 witness: a line with loops = 2 and a two-phase plan finished after its
\* second loop and the call returned.
C3_Witness ==
    \E ln \in Scrolling :
        LET c == line_states[ln].config
        IN  /\ c.loops = 2 /\ c.direction = "both_rl" /\ Shifts(ln) >= 2
            /\ pc = "done"
            /\ "loops_done" \in KindsOn(ln)
            /\ Len(Animation(ln)) = 2 * (2 * Shifts(ln) + 1)

\* The slack of one scheduler tick: a clock reading at the top of the loop and
\* a wake-up may each come MaxSlack late.
TickSlack == 2 * MaxSlack

\* C4: when a scrollable line has a timeout, the call is over (main loop left)
\* no later than the earliest such deadline plus one tick of slack, whatever
\* the delays, and every scrollable line then shows its static frame.
C4_ReturnsByTimeout ==
    (pc \in {"safeguard", "done"} /\ overall_end_time < Inf) =>
        /\ now <= overall_end_time + TickSlack
        /\ \A ln \in Scrolling :
              /\ line_states[ln].state = "finished"
              /\ LineLog(ln)[Len(LineLog(ln))].frame
                    = SubSeq(line_states[ln].config.text, 1, Width)

\* C5: when the clock reading at the top of the main loop is at or after the
\* overall deadline, that iteration writes the static frame (the first `width`
\* characters) of every active line, in the order of the active list, whatever
\* the line's own timeout; it marks each of them finished with next action time
\* +infinity, empties the active list and leaves the main loop.
C5_EarliestTimeoutWins ==
    [][ (pc = "loop" /\ tick'.reading >= overall_end_time) =>
          /\ pc' = "safeguard"
          /\ active_line_numbers' = << >>
          /\ now' = tick'.reading
          /\ Len(log') = Len(log) + Len(active_line_numbers)
          /\ \A j \in 1..Len(active_line_numbers) :
                LET ln == active_line_numbers[j]
                    w == log'[Len(log) + j]
                IN  /\ w.ln = ln
                    /\ w.frame = SubSeq(line_states[ln].config.text, 1, Width)
                    /\ line_states'[ln] = [line_states[ln] EXCEPT
                                              !.state = "finished",
                                              !.next_action_time = Inf]
          /\ \A ln \in DOMAIN line_states : line_states'[ln].state = "finished"
      ]_vars

\* C5 witness: the overall deadline finished two lines at once, one of them a
\* line whose own deadline is later or that has no timeout.
C5_Witness ==
    /\ pc = "safeguard"
    /\ Cardinality(Scrolling) = 2
    /\ \A ln \in Scrolling : "overall_timeout" \in KindsOn(ln)
    /\ \E ln \in Scrolling : line_states[ln].end_time > overall_end_time

\* No two configs on a valid line name the same line.
DistinctLines ==
    \A i, j \in 1..Len(lines) :
        (i # j /\ lines[i].line = lines[j].line) => invalid_line(lines[i].line)

\* The frames written on a line by the setup and the main loop.
Frames(writes) == [j \in 1..Len(writes) |-> writes[j].frame]
ShownOn(ln) == SelectSeq(LineLog(ln), LAMBDA e : e.kind # "final")

\* C6 as stated: a line whose own deadline has not been reached shows the
\* frames, and has the due time, that it has when it is animated alone, also
\* after another line has finished by reaching its timeout.
C6_Independent ==
    DistinctLines =>
        \A ln \in Scrolling :
            now < line_states[ln].end_time =>
                /\ Frames(ShownOn(ln)) = Frames(solo[ln].writes)
                /\ line_states[ln].next_action_time = solo[ln].state.next_action_time

\* C6 amended: as long as the clock readings are below the overall deadline,
\* every line has the state, the due time and the frames that it has when it
\* is animated alone on the same clock, whether or not other lines have
\* finished; a due line is stepped at most MaxSlack after its due time, and no
\* active line is left with a due time in the past.
C6_IndependentUntilDeadline ==
    DistinctLines =>
        /\ now < overall_end_time =>
              \A ln \in DOMAIN line_states :
                  /\ line_states[ln] = solo[ln].state
                  /\ ShownOn(ln) = solo[ln].writes
        /\ tick.lag <= MaxSlack
        /\ pc = "loop" =>
              \A j \in 1..Len(active_line_numbers) :
                  line_states[active_line_numbers[j]].next_action_time >= now

\* C6 witness: of two scrolling lines one has finished its loops, and the other,
\* still active, has since shown a further frame.
C6_Witness ==
    /\ DistinctLines
    /\ now < overall_end_time
    /\ \E a, b \in Scrolling :
          /\ a # b
          /\ line_states[a].state = "finished" /\ "loops_done" \in KindsOn(a)
          /\ line_states[b].state # "finished"
          /\ log[Len(log)].ln = b /\ log[Len(log)].kind = "scroll"
          /\ line_states[b].config.start_delay > 0

\* C7: a line with loops = 0 is never finished by its loop counter: it is
\* finished only when the clock has reached its own deadline or the overall
\* deadline, by a timeout write and never by the end of a loop; when no line has
\* a timeout it is never finished, the main loop is never left, and the windows
\* it shows go round its plan again and again.
C7_InfiniteLoops ==
    \A ln \in Scrolling :
        LET st == line_states[ln]
            c == st.config
            plan == DocumentedPlan(c.direction, Shifts(ln))
            a == Animation(ln)
        IN  (c.loops = 0 /\ DistinctLines) =>
              /\ st.state = "finished" =>
                    /\ now >= st.end_time \/ now >= overall_end_time
                    /\ KindsOn(ln) \cap TimeoutKinds # {}
              /\ "loops_done" \notin KindsOn(ln)
              /\ overall_end_time = Inf =>
                    /\ st.state # "finished"
                    /\ pc \in {"setup", "loop"}
                    /\ pc = "loop" => ln \in {active_line_numbers[j] :
                                                j \in 1..Len(active_line_numbers)}
              /\ \A j \in 1..Len(a) : a[j].off = plan[((j - 1) % Len(plan)) + 1]

\* C7 witness: with no timeout on any line, a line with loops = 0 has gone
\* through more loops than any loops value of the inputs and is still active.
C7_Witness ==
    \E ln \in Scrolling :
        /\ DistinctLines
        /\ line_states[ln].config.loops = 0
        /\ overall_end_time = Inf
        /\ line_states[ln].current_loop > MaxLoops
        /\ line_states[ln].state = "scrolling"

\* A config on a valid line whose text fits the width, and one whose text does not.
FitsWidth(c) == ~invalid_line(c.line) /\ Len(c.text) <= Width
NeedsScroll(c) == ~invalid_line(c.line) /\ Len(c.text) > Width

\* The configs the setup loop has gone through.
SetUp == IF pc = "setup" THEN SubSeq(lines, 1, idx - 1) ELSE lines

\* A text padded with spaces on the right to the width.
LeftAligned(text) == [j \in 1..Width |-> IF j <= Len(text) THEN text[j] ELSE 32]

C8_WitnessAllStatic ==
    /\ pc = "done"
    /\ \A i \in 1..Len(lines) : FitsWidth(lines[i])
    /\ Len(SelectSeq(log, LAMBDA e : e.kind = "static")) = 2

\* The call-start time plus the smallest of a set of timeouts, +infinity for none.
EarliestDeadline(timeouts) ==
    IF timeouts = {} THEN Inf
    ELSE t0 + (CHOOSE t \in timeouts : \A u \in timeouts : t <= u)

RECURSIVE SetupOf(_, _)
SetupOf(configs, start) ==
    IF configs = << >>
    THEN [d |-> [map |-> << >>, keys |-> << >>], overall_end_time |-> Inf, writes |-> << >>]
    ELSE LET before == SetupOf(SubSeq(configs, 1, Len(configs) - 1), start)
             r == setup_config(before.d, before.overall_end_time,
                               configs[Len(configs)], start)
         IN  [d |-> r.d, overall_end_time |-> r.overall_end_time,
              writes |-> before.writes \o r.writes]

\* The safeguard loop run over a list of configs: its writes.
RECURSIVE SafeguardOf(_)
SafeguardOf(configs) ==
    IF configs = << >> THEN << >>
    ELSE SafeguardOf(SubSeq(configs, 1, Len(configs) - 1))
             \o safeguard_writes(line_states, configs[Len(configs)])

OnDisplay(c) == c.line \in 1..Rows

\* C10: a config whose line is outside 1..rows leaves no trace: the dict of line
\* states, its key order, the overall deadline and the writes of the setup are
\* those of the same call without such configs, so are the writes of the
\* safeguard loop, and no write, no key of the dict and no active line is ever
\* outside 1..rows.  (The main loop reads only the dict, the active list built
\* from it and the overall deadline.)
C10_InvalidLineSkipped ==
    LET without == SetupOf(SelectSeq(SetUp, OnDisplay), t0)
        safeguarded == IF pc = "safeguard" THEN SubSeq(lines, 1, idx - 1)
                       ELSE IF pc = "done" THEN lines ELSE << >>
    IN  /\ line_keys = without.d.keys
        /\ overall_end_time = without.overall_end_time
        /\ SelectSeq(log, LAMBDA e : e.kind \in SetupKinds) = without.writes
        /\ pc = "setup" => line_states = without.d.map
        /\ DOMAIN line_states = DOMAIN without.d.map
        /\ DOMAIN line_states \subseteq 1..Rows
        /\ \A j \in 1..Len(active_line_numbers) : active_line_numbers[j] \in 1..Rows
        /\ \A j \in 1..Len(log) : log[j].ln \in 1..Rows
        /\ SelectSeq(log, LAMBDA e : e.kind = "final")
              = SafeguardOf(SelectSeq(safeguarded, OnDisplay))

\* C10 witness: a call with a scrolling config on line 1 and a config with a
\* long text and a timeout on a line outside 1..rows has returned after the
\* scrolling line completed its loops.
C10_Witness ==
    /\ pc = "done"
    /\ \E i, j \in 1..Len(lines) :
          /\ ~OnDisplay(lines[i]) /\ lines[i].timeout > 0
          /\ Len(lines[i].text) > Width
          /\ lines[i].line \in LINES
          /\ NeedsScroll(lines[j])
    /\ "loops_done" \in KindsOn(1)
    /\ overall_end_time = Inf

\* The writes of the last iteration of the main loop.
TickLog == SubSeq(log, Len(log) - tick.wrote + 1, Len(log))

\* The position in the input list of the config registered for a line (the last
\* config that names the line), and of the first config that names the line.
ConfigPos(ln) ==
    CHOOSE i \in 1..Len(lines) :
        lines[i].line = ln /\ \A k \in (i + 1)..Len(lines) : lines[k].line # ln
FirstPos(ln) ==
    CHOOSE i \in 1..Len(lines) :
        lines[i].line = ln /\ \A k \in 1..(i - 1) : lines[k].line # ln

\* What one iteration writes when every active line is dispatched once, on the
\* state it had at the start of the iteration, in the order of the active list.
RECURSIVE OnceEach(_, _, _)
OnceEach(active, t, timed_out) ==
    IF active = << >> THEN << >>
    ELSE LET ln == Head(active)
             here == IF timed_out
                     THEN fallback_writes(line_states[ln].config, ln, "overall_timeout")
                     ELSE process_line(line_states[ln], ln, t).writes
         IN  here \o OnceEach(Tail(active), t, timed_out)

\* C11 as stated: the lines written by one iteration of the main loop are
\* written in the order of their configs in the input list.
C11_ConfigOrder ==
    pc = "loop" =>
        \A i, j \in 1..Len(TickLog) :
            i < j => ConfigPos(TickLog[i].ln) < ConfigPos(TickLog[j].ln)

\* C11 amended: one iteration of the main loop dispatches every active line at
\* most once, on the state the line had when the iteration began, and the due
\* lines in the order in which their line numbers first appear in the input
\* list (the order of the configs when no two configs name the same line); the
\* states and the writes that result are a function of the state before, the
\* clock reading at the top of the loop and the reading after the sleep.
C11_RegistrationOrder ==
    [][ pc = "loop" =>
          LET timed_out == tick'.reading >= overall_end_time
              new == SubSeq(log', Len(log) + 1, Len(log'))
          IN  /\ new = OnceEach(active_line_numbers, now', timed_out)
              /\ \A i, j \in 1..Len(new) :
                    i < j => FirstPos(new[i].ln) < FirstPos(new[j].ln)
              /\ \A i, j \in 1..Len(active_line_numbers) :
                    i < j => FirstPos(active_line_numbers[i])
                                < FirstPos(active_line_numbers[j])
              /\ \A ln \in DOMAIN line_states :
                    line_states'[ln] =
                        IF \E j \in 1..Len(active_line_numbers) : active_line_numbers[j] = ln
                        THEN IF timed_out THEN finish(line_states[ln])
                             ELSE process_line(line_states[ln], ln, now').state
                        ELSE line_states[ln]
      ]_vars

\* C11 witness: one iteration has shown a scroll frame on two lines, the line
\* named by the first and the last config before the line named by the second.
C11_Witness ==
    /\ pc = "loop"
    /\ Len(lines) = 3
    /\ lines[1].line = lines[3].line /\ lines[2].line # lines[1].line
    /\ tick.wrote = 2
    /\ TickLog[1].ln = lines[1].line /\ TickLog[1].kind = "scroll"
    /\ TickLog[2].ln = lines[2].line /\ TickLog[2].kind = "scroll"

\* C12: when an iteration that is not ended by the overall deadline dispatches
\* a due line at a clock reading at or after the line's own deadline, then in
\* whatever state the line is, the iteration writes the line once, with the first
\* `width` characters of its text; the line becomes finished with next action
\* time +infinity, every other field of its state (loop counter, phase index,
\* frame index) is unchanged, and the line leaves the active list.
C12_DeadlineFirst ==
    [][ (pc = "loop" /\ tick'.reading < overall_end_time) =>
          \A j \in 1..Len(active_line_numbers) :
              LET ln == active_line_numbers[j]
                  state == line_states[ln]
                  new == SubSeq(log', Len(log) + 1, Len(log'))
                  on_line == SelectSeq(new, LAMBDA e : e.ln = ln)
              IN  (now' >= state.next_action_time /\ now' >= state.end_time) =>
                      /\ Len(on_line) = 1
                      /\ on_line[1].frame = SubSeq(state.config.text, 1, Width)
                      /\ on_line[1].kind = "line_timeout"
                      /\ line_states'[ln] = [state EXCEPT !.state = "finished",
                                                          !.next_action_time = Inf]
                      /\ \A k \in 1..Len(active_line_numbers') :
                            active_line_numbers'[k] # ln
      ]_vars

\* C12 witness: a line was finished by its own deadline when it was due in state
\* awaiting_end_delay (all phases of the loop shown): its loop counter is still 0.
C12_Witness ==
    \E ln \in Scrolling :
        /\ "line_timeout" \in KindsOn(ln)
        /\ line_states[ln].state = "finished"
        /\ line_states[ln].current_phase_idx = Len(line_states[ln].all_phases_indices)
        /\ line_states[ln].current_loop = 0
        /\ line_states[ln].config.loops = 1

\* The same for a line that was due in state awaiting_first_scroll, scrolling
\* and awaiting_phase_delay.
C12_WitnessOtherStates ==
    /\ pc = "done"
    /\ "line_timeout" \in KindsOn(1)
    /\ line_states[1].current_phase_idx < Len(line_states[1].all_phases_indices)
    /\ \/ Len(Animation(1)) = 1
       \/ line_states[1].current_frame_in_phase_idx = 0
       \/ line_states[1].current_frame_in_phase_idx > 1

\* C13: a line that is in state scrolling, or waiting to enter it, points at a
\* frame that exists: its phase index is the index of a phase and its frame
\* index is less than the length of that phase; the out-of-bounds branch of
\* state scrolling is never taken.
C13_FrameInBounds ==
    /\ \A ln \in Scrolling :
          LET state == line_states[ln]
          IN  state.state \in {"awaiting_first_scroll", "scrolling", "awaiting_phase_delay"} =>
                  /\ state.current_phase_idx \in 0..(Len(state.all_phases_indices) - 1)
                  /\ state.current_frame_in_phase_idx
                        \in 0..(Len(state.all_phases_indices[state.current_phase_idx + 1]) - 1)
    /\ \A j \in 1..Len(log) : log[j].kind # "oob"

\* C13 witness: in its second loop, a line is about to show the only frame of a
\* phase of length 1 (the second phase when the text is one longer than the
\* width).
C13_Witness ==
    \E ln \in Scrolling :
        LET state == line_states[ln]
        IN  /\ state.state = "scrolling"
            /\ state.current_loop >= 1
            /\ state.current_phase_idx = 1
            /\ Len(state.all_phases_indices[2]) = 1
            /\ state.current_frame_in_phase_idx = 0

\* The documented phases of one loop for a valid direction (s = L - W).
DocumentedPhases(direction, s) ==
    CASE direction = "left"    -> << [j \in 1..(s + 1) |-> j - 1] >>
      [] direction = "right"   -> << [j \in 1..(s + 1) |-> s + 1 - j] >>
      [] direction = "both_lr" -> << [j \in 1..(s + 1) |-> j - 1], [j \in 1..s |-> s - j] >>
      [] direction = "both_rl" -> << [j \in 1..(s + 1) |-> s + 1 - j], [j \in 1..s |-> j] >>

\* C14: for a text of length L > W, the phases scroll_text builds for a loop are
\* the documented ones for its direction, and they are the phases
\* animated_display computes for the same text and direction; so are the phases
\* of animated_display for every direction and every shifts = L - W in range.
C14_DocumentedPlan ==
    /\ pc \in {"st_phase", "st_frame", "st_end_delay"} =>
          LET s == Len(scroll.text) - Width
          IN  /\ scroll.phases = DocumentedPhases(scroll.direction, s)
              /\ scroll.phases = all_phases(scroll.given_direction, s)
    /\ \A direction \in valid_directions, s \in 1..(MaxLen - Width) :
          /\ all_phases(direction, s) = DocumentedPhases(direction, s)
          /\ scroll_text_phases(direction, s) = DocumentedPhases(direction, s)

\* C14 witness: scroll_text is in the second phase of "both_rl" for a text two
\* or more longer than the width, past its first offset.
C14_Witness ==
    /\ pc = "st_frame"
    /\ scroll.direction = "both_rl"
    /\ Len(scroll.text) - Width >= 2
    /\ scroll.phase_no = 2
    /\ scroll.k = 2
    /\ Len(log) >= 2 /\ log[Len(log)].off = 1

\* The positions of scroll_text past its entry.
ScrollRunning == {"st_while", "st_phase", "st_frame", "st_end_delay", "st_reset", "st_done"}

Printed(message) == \E j \in 1..Len(printed) : printed[j] = message

\* A line of animated_display whose config has no valid direction has the plan
\* of "left" and shows the offsets 0..shifts of "left", loop after loop.
AnimatedAsLeft ==
    \A ln \in Scrolling :
        LET state == line_states[ln]
            a == Animation(ln)
        IN  state.config.direction \notin valid_directions =>
                /\ state.all_phases_indices = all_phases("left", Shifts(ln))
                /\ \A j \in 1..Len(a) : a[j].off = (j - 1) % (Shifts(ln) + 1)

\* A call of scroll_text with no valid direction goes on with direction "left"
\* and its phases, and has printed the warning.
ScrolledAsLeft ==
    (pc \in ScrollRunning /\ scroll.given_direction \notin valid_directions) =>
        /\ scroll.direction = "left"
        /\ pc \in {"st_phase", "st_frame", "st_end_delay"} =>
              scroll.phases = scroll_text_phases("left", Len(scroll.text) - Width)
        /\ Printed("invalid_direction")

\* C15: a direction outside {left, right, both_lr, both_rl} is animated as
\* "left" by scroll_text and by animated_display, and a warning is printed for
\* it: by scroll_text at its entry, by animated_display when the config of a
\* scrolling line is set up.
C15_FallbackWarned ==
    /\ ScrolledAsLeft
    /\ pc \in {"setup", "loop", "safeguard", "done"} =>
          /\ AnimatedAsLeft
          /\ \A i \in 1..Len(SetUp) :
                (NeedsScroll(SetUp[i]) /\ SetUp[i].direction \notin valid_directions)
                    => Printed("invalid_direction")

\* C16: when scroll_text has returned from a call on a valid line with a text
\* longer than the width, the last frame written to the line is the first
\* `width` characters of the text, whether the loops completed or the timeout
\* was reached.
C16_FinalFrame ==
    (pc = "st_done" /\ ~invalid_line(scroll.line) /\ Len(scroll.text) > Width) =>
        /\ LineLog(scroll.line) # << >>
        /\ LineLog(scroll.line)[Len(LineLog(scroll.line))].frame
              = SubSeq(scroll.text, 1, Width)

\* C17: a call of animated_display in which every scrolling config on a valid
\* line has loops > 0, or one of them has a timeout, returns; when it has
\* returned the active list is empty and every registered line is finished.
C17_Terminates ==
    /\ <>(pc = "done")
    /\ [](pc = "done" =>
            /\ active_line_numbers = << >>
            /\ \A ln \in DOMAIN line_states : line_states[ln].state = "finished")

\* C17 witness: a call has returned in which a line with loops = 0 and no delay
\* at all was ended by the deadline, after more than MaxLog writes.
C17_Witness ==
    /\ pc = "done"
    /\ Len(log) > MaxLog
    /\ \E ln \in Scrolling :
          LET c == line_states[ln].config
          IN  /\ c.loops = 0 /\ c.timeout > 0
              /\ c.scroll_delay = 0 /\ c.start_delay = 0
              /\ c.phase_delay = 0 /\ c.end_delay = 0
              /\ KindsOn(ln) \cap TimeoutKinds # {}

\* C18: no frame of the main loop that shows a window other than the first
\* `width` characters (a scroll frame at an offset other than 0) is written at
\* a clock reading at or after the overall deadline.
C18_NoScrollPastDeadline ==
    \A ln \in DOMAIN line_states :
        (/\ stamps[ln] # << >>
         /\ Last(ln).kind \in {"scroll", "new_loop"}
         /\ Last(ln).off # 0)
            => Last(ln).t < overall_end_time

\* The writes of the last iteration that went to a line.
TickLogOn(ln) == SelectSeq(TickLog, LAMBDA e : e.ln = ln)

\* One step of the state machine of a line: an edge of the if/elif chain, or the
\* finishing of the line; a line that stays in "scrolling" advances one frame.
OneStep(before, after) ==
    \/ after = before
    \/ after.state = "finished"
    \/ /\ before.state \in {"awaiting_first_scroll", "awaiting_phase_delay"}
       /\ after.state = "scrolling"
       /\ after.current_phase_idx = before.current_phase_idx
       /\ after.current_frame_in_phase_idx = before.current_frame_in_phase_idx
    \/ /\ before.state = "scrolling"
       /\ after.state = "scrolling"
       /\ after.current_phase_idx = before.current_phase_idx
       /\ after.current_frame_in_phase_idx = before.current_frame_in_phase_idx + 1
    \/ /\ before.state = "scrolling"
       /\ after.state \in {"awaiting_phase_delay", "awaiting_end_delay"}
    \/ /\ before.state = "awaiting_end_delay"
       /\ after.state = "awaiting_first_scroll"

\* The iteration after the one in which line ln entered "scrolling" did not
\* sleep and wrote the scroll frame of the line at its clock reading.
RenderedNow(ln) ==
    /\ tick'.slept_for = 0
    /\ now' = tick'.reading
    /\ line_states[ln].state = "scrolling"
    /\ Len(TickLogOn(ln)') = 1
    /\ TickLogOn(ln)'[1].kind = "scroll"
    /\ Last(ln)'.kind = "scroll"
    /\ Last(ln)'.t = now'

\* The iteration found a deadline reached (the overall one at the top of the
\* loop, or the line's own when the line was dispatched) and finished line ln.
DeadlineNow(ln) ==
    /\ tick'.slept_for = 0
    /\ \/ tick'.reading >= overall_end_time
       \/ now' >= line_states[ln].end_time
    /\ line_states'[ln].state = "finished"

\* C19 as stated: the iteration after the one in which a line entered
\* "scrolling" from "awaiting_first_scroll" or "awaiting_phase_delay" always
\* writes the scroll frame of the line, without a sleep.
C19_RenderedNextTick ==
    [][ pc = "loop" => \A ln \in tick.entered : RenderedNow(ln) ]_vars

\* C19: an iteration that moves a line from "awaiting_first_scroll" or
\* "awaiting_phase_delay" to "scrolling" writes nothing on the line and sets its
\* next action time to the clock reading of the iteration; an iteration takes a
\* line through at most one step of the state machine; the next iteration does
\* not sleep and either writes the scroll frame of the line in state
\* "scrolling", or finds a deadline reached and finishes the line.
C19_EnterThenRender ==
    [][ pc = "loop" =>
          \A ln \in DOMAIN line_states :
              /\ OneStep(line_states[ln], line_states'[ln])
              /\ Len(TickLogOn(ln)') <= 1
              /\ ln \in tick'.entered =>
                    /\ TickLogOn(ln)' = << >>
                    /\ stamps'[ln] = stamps[ln]
                    /\ line_states'[ln].next_action_time = now'
              /\ ln \in tick.entered => (RenderedNow(ln) \/ DeadlineNow(ln)) ]_vars

\* A line entered "scrolling" in one iteration and its frame was written by the
\* next, which did not sleep; the clock had moved on in between.
C19_Witness ==
    \E ln \in tick.followed :
        /\ tick.slept_for = 0
        /\ TickLogOn(ln) # << >>
        /\ Last(ln).kind = "scroll"
        /\ Last(ln).t = now
        /\ HasTwo(ln)
        /\ Prev(ln).t < now

\* A line entered "scrolling" after a phase delay (its phase index is past the
\* first phase) and the next iteration wrote the first frame of the new phase.
C19_WitnessPhase ==
    \E ln \in tick.followed :
        /\ tick.slept_for = 0
        /\ TickLogOn(ln) # << >>
        /\ Last(ln).kind = "scroll"
        /\ line_states[ln].config.direction = "both_lr"
        /\ line_states[ln].current_phase_idx >= 1

\* The lines of a dict of line states that carry a loop counter (the lines
\* registered as scrolling, lines 575-584).
Counting(map) == {ln \in DOMAIN map : "current_loop" \in DOMAIN map[ln]}

\* Every phase of the current loop of a line was rendered: no non-empty phase is
\* left at or after its phase index, and the last frame written on the line is
\* the scroll frame of some phase's last offset.
LoopRendered(ln) ==
    LET state == line_states[ln]
        phases == state.all_phases_indices
    IN  /\ first_non_empty(phases, state.current_phase_idx) >= Len(phases)
        /\ stamps[ln] # << >>
        /\ Last(ln).kind \in {"scroll", "initial", "new_loop"}
        /\ \E j \in 1..Len(phases) :
              /\ phases[j] # << >>
              /\ first_non_empty(phases, j) >= Len(phases)
              /\ Last(ln).off = phases[j][Len(phases[j])]

\* C20: the loop counter of a line is 0 when the line is registered and until
\* the main loop starts; it changes only by +1, and only in an iteration of the
\* main loop that dispatches the line in state "awaiting_end_delay" (every phase
\* of the loop rendered, the end delay over, the line's deadline not reached);
\* for loops = N > 0 it never exceeds N.
C20_LoopCounter ==
    /\ [](\A ln \in Counting(line_states) :
            /\ line_states[ln].current_loop >= 0
            /\ pc = "setup" => line_states[ln].current_loop = 0
            /\ line_states[ln].config.loops > 0 =>
                  line_states[ln].current_loop <= line_states[ln].config.loops)
    /\ [][ \A ln \in Counting(line_states') :
              IF ln \in Counting(line_states)
              THEN line_states'[ln].current_loop # line_states[ln].current_loop =>
                     /\ line_states'[ln].current_loop = line_states[ln].current_loop + 1
                     /\ pc = "loop"
                     /\ tick'.reading < overall_end_time
                     /\ line_states[ln].state = "awaiting_end_delay"
                     /\ LoopRendered(ln)
                     /\ now' >= line_states[ln].next_action_time
                     /\ now' >= Last(ln).t + line_states[ln].config.end_delay
                     /\ now' < line_states[ln].end_time
              ELSE line_states'[ln].current_loop = 0 ]_vars

\* A line with loops = MaxLoops was counted up to MaxLoops and finished there.
C20_Witness ==
    \E ln \in Counting(line_states) :
        /\ line_states[ln].config.loops = MaxLoops
        /\ line_states[ln].current_loop = MaxLoops
        /\ line_states[ln].state = "finished"
        /\ Last(ln).kind = "loops_done"

\* The members of a list.
Members(list) == {list[j] : j \in 1..Len(list)}

DispatchedWhenDue ==
    LET active == Members(active_line_numbers)
        reading == tick'.reading
        none_due == \A ln \in active : reading < line_states[ln].next_action_time
    IN  /\ \A ln \in DOMAIN line_states :
              (line_states'[ln] # line_states[ln] \/ TickLogOn(ln)' # << >>) =>
                  /\ ln \in active
                  /\ now' >= line_states[ln].next_action_time
        /\ (tick'.slept_for > 0) = none_due
        /\ ~none_due => now' = reading
        /\ none_due =>
              /\ \A ln \in active :
                    reading + tick'.slept_for <= line_states[ln].next_action_time
              /\ \E ln \in active :
                    /\ reading + tick'.slept_for = line_states[ln].next_action_time
                    /\ line_states'[ln] # line_states[ln]
              /\ now' >= reading + tick'.slept_for
              /\ now' <= reading + tick'.slept_for + MaxSlack

\* C22 as stated: lines are dispatched only when due, the scheduler sleeps only
\* when no active line is due and until the earliest next action time, and an
\* iteration makes no other call of sleep.
C22_OnlySuspension ==
    [][ (pc = "loop" /\ tick'.reading < overall_end_time) =>
          /\ DispatchedWhenDue
          /\ tick'.sleeps = IF tick'.slept_for > 0 THEN 1 ELSE 0 ]_vars

\* C22: lines are dispatched only when due, the scheduler sleeps only when no
\* active line is due and until the earliest next action time; the calls of
\* sleep of an iteration are that one and, for every line write of the
\* iteration, the two of each Enable pulse of its bus writes (four for each
\* address or character sent).
C22_SleepWhenNoneDue ==
    [][ (pc = "loop" /\ tick'.reading < overall_end_time) =>
          /\ DispatchedWhenDue
          /\ tick'.sleeps = (IF tick'.slept_for > 0 THEN 1 ELSE 0)
                             + 4 * (Width + 1) * tick'.wrote ]_vars

\* Two lines were active with different next action times, the scheduler slept
\* until the earlier one and the iteration wrote a frame of that line only.
C22_Witness ==
    /\ pc = "loop"
    /\ tick.slept_for > 0
    /\ tick.wrote = 1
    /\ tick.sleeps = 1 + 4 * (Width + 1)
    /\ Len(active_line_numbers) = 2
    /\ \E a, b \in Members(active_line_numbers) :
          /\ TickLogOn(a) # << >>
          /\ TickLogOn(b) = << >>
          /\ line_states[b].next_action_time > now

\* A frame is a window of `width` characters of a text longer than the width.
IsWindow(frame, text) ==
    \E o \in 0..(Len(text) - Width) : frame = SubSeq(text, o + 1, o + Width)

\* C23: every write of animated_display is a frame of exactly `width`
\* characters on the line of a config whose line is a row of the display; on
\* the line of a config with a text longer than the width it is, the line clear
\* apart, the window text[o : o + width] of such a config for an offset o with
\* 0 <= o <= L - width, whose offset the state machine recorded for a scroll
\* frame.
C23_WindowFrames ==
    \A j \in 1..Len(log) :
        LET e == log[j]
            configs == {i \in 1..Len(lines) :
                           lines[i].line = e.ln /\ lines[i].line \in 1..Rows}
        IN  /\ Len(e.frame) = Width
            /\ configs # {}
            /\ \/ e.kind = "clear" /\ e.frame = [k \in 1..Width |-> Space]
               \/ \E i \in configs :
                     IF Len(lines[i].text) > Width
                     THEN /\ IsWindow(e.frame, lines[i].text)
                          /\ e.off >= 0 =>
                                /\ e.off <= Len(lines[i].text) - Width
                                /\ e.frame = SubSeq(lines[i].text, e.off + 1, e.off + Width)
                     ELSE e.frame = Ljust(lines[i].text, Width)

\* A text with spaces was scrolled to its last offset on the first row while
\* the last row kept the one frame of its short text.
C23_Witness ==
    /\ Len(lines) = 2
    /\ pc = "done"
    /\ lines[1].line = 1
    /\ lines[2].line = Rows
    /\ \E j \in 1..Len(log) :
          /\ log[j].ln = 1
          /\ log[j].kind = "scroll"
          /\ log[j].off = Len(lines[1].text) - Width
          /\ Space \in {log[j].frame[k] : k \in 1..Width}
    /\ Len(SelectSeq(LineLog(Rows), LAMBDA e : e.kind # "clear")) = 1

\* The configs of the call with a text longer than the width on a row of the
\* display.
ScrollableConfigs == {i \in 1..Len(lines) : OnDisplay(lines[i]) /\ Len(lines[i].text) > Width}

\* C24: when animated_display has returned from a call whose configs are on
\* distinct lines, the last frame written on the line of every config with a
\* text longer than the width, on a row of the display, is the first `width`
\* characters of its text, and the line is finished.
C24_StaticFrameLast ==
    (pc = "done" /\ DistinctLines) =>
        \A i \in ScrollableConfigs :
            LET l == LineLog(lines[i].line)
            IN  /\ l # << >>
                /\ l[Len(l)].frame = SubSeq(lines[i].text, 1, Width)
                /\ line_states[lines[i].line].state = "finished"

\* The call has returned with two scrolling lines, one finished by its loops
\* and one by the overall deadline, each after a frame at an offset above 0.
C24_Witness ==
    /\ pc = "done"
    /\ DistinctLines
    /\ \E a, b \in Scrolling :
          /\ "loops_done" \in KindsOn(a)
          /\ "overall_timeout" \in KindsOn(b)
          /\ \A ln \in {a, b} :
                \E j \in 1..Len(log) : log[j].ln = ln /\ log[j].off > 0

\* The call has returned with a line finished by its own deadline.
C24_WitnessOwnDeadline ==
    /\ pc = "done"
    /\ DistinctLines
    /\ \E a \in Scrolling :
          /\ "line_timeout" \in KindsOn(a)
          /\ \E j \in 1..Len(log) :
                log[j].ln = a /\ log[j].kind = "scroll" /\ log[j].off > 0

\* The first phase has at least 2 offsets and every later phase at least 1.
PhasesFilled(phases) ==
    /\ Len(phases) >= 1
    /\ Len(phases[1]) >= 2
    /\ \A j \in 2..Len(phases) : Len(phases[j]) >= 1

\* C25: for every text length above the width and every direction, the first
\* phase of the plan has at least 2 offsets and a second phase at least 1; so
\* has the plan of every registered scrolling line, and the fallback for a plan
\* without phases is never taken, at setup or at the start of a new loop: no
\* write and no message comes from it.
C25_NoEmptyPhase ==
    /\ \A L \in (Width + 1)..(MaxLen + 2) : \A direction \in Directions :
          PhasesFilled(all_phases(direction, L - Width))
    /\ \A ln \in Scrolling : PhasesFilled(line_states[ln].all_phases_indices)
    /\ \A j \in 1..Len(log) : log[j].kind \notin {"no_phase_setup", "no_phase_loop"}
    /\ \A j \in 1..Len(printed) : printed[j] \notin {"no_phase_setup", "no_phase_loop"}

\* A line whose second phase has exactly one offset has started a new loop.
C25_Witness ==
    \E ln \in Scrolling :
        /\ Len(line_states[ln].all_phases_indices) = 2
        /\ Len(line_states[ln].all_phases_indices[2]) = 1
        /\ line_states[ln].config.direction = "both_rl"
        /\ line_states[ln].current_loop = 1
        /\ "new_loop" \in KindsOn(ln)

\* The frame a config leaves on its line: its text padded to the width when it
\* fits, else its first `width` characters.
FinalFrame(config) ==
    IF Len(config.text) <= Width THEN Ljust(config.text, Width)
    ELSE SubSeq(config.text, 1, Width)

\* A frame of a config: the final one, or a window of its text.
FrameOf(frame, config) ==
    \/ frame = FinalFrame(config)
    \/ Len(config.text) > Width /\ IsWindow(frame, config.text)

\* Two configs of the call name the same row of the display.
SameLine ==
    /\ Len(lines) = 2
    /\ lines[1].line = lines[2].line
    /\ OnDisplay(lines[1])

\* C26: when two configs name the same row, every frame written on the row
\* after the setup is a frame of the later config, and when the call has
\* returned the last frame written on the row is the final frame of the later
\* config.
C26_LaterReplaces ==
    SameLine =>
        LET ln == lines[2].line
            l == LineLog(ln)
        IN  /\ \A j \in 1..Len(l) :
                  l[j].kind \notin SetupKinds => FrameOf(l[j].frame, lines[2])
            /\ pc = "done" => (l # << >> /\ l[Len(l)].frame = FinalFrame(lines[2]))

\* A sequence of frames with every run of identical consecutive frames
\* collapsed to one.
RECURSIVE Collapse(_)
Collapse(frames) ==
    IF Len(frames) <= 1 THEN frames
    ELSE IF frames[1] = frames[2] THEN Collapse(Tail(frames))
    ELSE <<frames[1]>> \o Collapse(Tail(frames))

\* The windows of a text at the offsets of a list, in order.
RECURSIVE Windows(_, _)
Windows(text, offsets) ==
    IF offsets = << >> THEN << >>
    ELSE <<SubSeq(text, offsets[1] + 1, offsets[1] + Width)>> \o Windows(text, Tail(offsets))

RECURSIVE Flat(_)
Flat(phases) == IF phases = << >> THEN << >> ELSE Head(phases) \o Flat(Tail(phases))

RECURSIVE Times(_, _)
Times(n, frames) == IF n = 0 THEN << >> ELSE frames \o Times(n - 1, frames)

\* The line clear, N times the windows of the plan of the direction (the plan
\* of "left" for an unknown direction), the first `width` characters.
ExpectedFrames(text, direction, loops) ==
    LET plan == DocumentedPhases(IF direction \in valid_directions THEN direction ELSE "left",
                                 Len(text) - Width)
    IN  <<[k \in 1..Width |-> Space]>>
            \o Times(loops, Windows(text, Flat(plan)))
            \o <<SubSeq(text, 1, Width)>>

\* C27: a call with one text longer than the width on a row of the display,
\* loops = N > 0 and no timeout has, when it has returned, written on the line
\* and nowhere else, up to repeated consecutive frames, the line clear, N times
\* the windows of the plan in order and the first `width` characters: both as
\* the only ScrollLine of animated_display and as the arguments of scroll_text.
C27_SameFrames ==
    /\ (pc = "done" /\ lines[1].loops > 0 /\ lines[1].timeout = 0) =>
          /\ Collapse(Frames(LineLog(lines[1].line)))
                = Collapse(ExpectedFrames(lines[1].text, lines[1].direction, lines[1].loops))
          /\ \A j \in 1..Len(log) : log[j].ln = lines[1].line
    /\ (pc = "st_done" /\ scroll.loops > 0 /\ scroll.timeout = 0) =>
          /\ Collapse(Frames(LineLog(scroll.line)))
                = Collapse(ExpectedFrames(scroll.text, scroll.given_direction, scroll.loops))
          /\ \A j \in 1..Len(log) : log[j].ln = scroll.line

\* animated_display has returned from MaxLoops loops in both directions of a
\* text two longer than the width, with delays.
C27_Witness ==
    /\ pc = "done"
    /\ lines[1].loops = MaxLoops
    /\ lines[1].timeout = 0
    /\ lines[1].direction = "both_rl"
    /\ Len(lines[1].text) = Width + 2
    /\ lines[1].start_delay = 1
    /\ now > t0

\* scroll_text has returned from the same call.
C27_WitnessScrollText ==
    /\ pc = "st_done"
    /\ scroll.loops = MaxLoops
    /\ scroll.timeout = 0
    /\ scroll.given_direction = "both_rl"
    /\ Len(scroll.text) = Width + 2
    /\ scroll.start_delay = 1
    /\ now > t0

\* Where a text longer than the width is split: at the last space among its
\* first width + 1 characters, at the width when there is none.
SplitAt(text) ==
    LET spaces == {k \in 0..Width : text[k + 1] = Space}
    IN  IF spaces = {} THEN Width ELSE CHOOSE k \in spaces : \A m \in spaces : m <= k

\* r is the text t without its leading and trailing whitespace.
IsStripped(r, t) ==
    \E i \in 1..(Len(t) + 1) : \E j \in 0..Len(t) :
        /\ r = (IF i > j THEN << >> ELSE SubSeq(t, i, j))
        /\ \A k \in 1..Len(t) : (k < i \/ k > j) => t[k] \in Whitespace
        /\ r # << >> => (r[1] \notin Whitespace /\ r[Len(r)] \notin Whitespace)
        /\ r = << >> => (i = Len(t) + 1 /\ j = Len(t))

\* The frame is the portion padded with spaces to the width as the alignment
\* asks ("left" for an unknown alignment).
IsPadded(frame, portion, align) ==
    LET marg == Width - Len(portion)
        spaces(n) == [k \in 1..n |-> Space]
    IN  /\ Len(portion) <= Width
        /\ Len(frame) = Width
        /\ CASE align = "right"  -> frame = spaces(marg) \o portion
             [] align = "center" ->
                   \E left \in {marg \div 2, marg - (marg \div 2)} :
                       frame = spaces(left) \o portion \o spaces(marg - left)
             [] OTHER            -> frame = portion \o spaces(marg)

\* The line writes j, j + 1, ... of the log are those of the text t started on
\* the line ln.
RECURSIVE WrittenFrom(_, _, _)
WrittenFrom(j, t, ln) ==
    LET portion == IF Len(t) <= Width THEN t ELSE SubSeq(t, 1, SplitAt(t))
        rest == IF Len(t) <= Width THEN << >> ELSE SubSeq(t, SplitAt(t) + 1, Len(t))
        remainder == CHOOSE r \in {SubSeq(rest, a, b) : a \in 1..(Len(rest) + 1), b \in 0..Len(rest)} :
                         IsStripped(r, rest)
    IN  /\ j <= Len(log)
        /\ log[j].ln = ln
        /\ ln <= Rows
        /\ IsPadded(log[j].frame, portion, scroll.align)
        /\ IF remainder # << >> /\ ln < Rows
           THEN WrittenFrom(j + 1, remainder, ln + 1)
           ELSE Len(log) = j

\* C28: text(t, line) started on a row of the display writes, line by line
\* from that row, exactly `width` characters: the portion of the text up to the
\* split (the whole text when it fits) padded as the alignment asks, then the
\* stripped remainder on the next line while there is a row left; it writes on
\* no line above rows, on at most rows - line + 1 lines, and the text left
\* after the last row is written nowhere.
C28_TextLines ==
    (pc = "tx_done" /\ scroll.line \in 1..Rows) =>
        /\ WrittenFrom(1, scroll.text, scroll.line)
        /\ Len(log) <= Rows - scroll.line + 1
        /\ \A j \in 1..Len(log) :
              /\ Len(log[j].frame) = Width
              /\ log[j].ln = scroll.line + j - 1
              /\ log[j].ln \in 1..Rows

\* A text was split at a space on the first row, its remainder split at the
\* width on the last row, and a character was left over.
C28_Witness ==
    /\ pc = "tx_done"
    /\ scroll.line = 1
    /\ Len(scroll.text) = MaxLen + 1
    /\ scroll.text[2] = Space
    /\ scroll.text[1] = 97
    /\ \A k \in 3..Len(scroll.text) : scroll.text[k] = 97
    /\ scroll.align = "center"
    /\ Len(log) = Rows

\* The three payloads of one nibble: mode, the nibble in bits 7..4 and the
\* backlight in bit 3, with Enable (bit 2) low, high, low.
Pulse(mode, nibble, backlight) ==
    LET p == mode + 16 * nibble + (IF backlight THEN 8 ELSE 0)
    IN  <<p, p + 4, p>>

\* The bus writes of the last call.
LastCall == SubSeq(log, Len(log) - 5, Len(log))

\* C29: every call leaves exactly six more bus writes: for the high nibble and
\* then the low nibble of the byte, the payload with Enable low, high, low;
\* the backlight bit of all six is the _backlight of the object during the
\* call, which write() leaves as it was and an assignment to the property has
\* set to the new value before the command is sent, so that the last byte on
\* the bus carries the current _backlight.
C29_SixBusWrites ==
    /\ Len(log) = 6 * scroll.calls
    /\ scroll.calls > 0 =>
          /\ LastCall = Pulse(scroll.mode, (scroll.byte \div 16) % 16, scroll.backlight)
                          \o Pulse(scroll.mode, scroll.byte % 16, scroll.backlight)
          /\ \A k \in 1..6 :
                /\ LastCall[k] \in 0..255
                /\ ((LastCall[k] \div 8) % 2 = 1) = scroll.backlight
                /\ ((LastCall[k] \div 4) % 2 = 1) = (k \in {2, 5})
                /\ LastCall[k] % 2 = scroll.mode
          /\ scroll.op = "write" => scroll.backlight = scroll.at_call
          /\ scroll.op = "backlight" => scroll.byte = LCD_DISPLAY_ON_NO_CURSOR_NO_BLINK
          /\ tick.wrote = 6

\* The backlight was switched off by an assignment after a data byte with both
\* nibbles set was written with the backlight on.
C29_Witness ==
    /\ scroll.calls = 2
    /\ scroll.op = "backlight"
    /\ ~scroll.backlight
    /\ scroll.at_call
    /\ SubSeq(log, 1, 6) = <<169, 173, 169, 89, 93, 89>>
    /\ LastCall = <<0, 4, 0, 192, 196, 192>>

====
